---- MODULE Spec2Model ----
(***************************************************************************)
(* Model of the tolling service bus: the envelope/payload schema gate      *)
(* (schemas.py), the command-line publisher (publisher.py), the topology   *)
(* declarations and the RabbitClient of the service (app_bus.py) and the   *)
(* consumer worker (worker.py).                                            *)
(*                                                                         *)
(* Conventions.  A dotted string such as "transit.recorded" is held as the *)
(* tuple of its dot-separated words, <<"transit", "recorded">>; the empty  *)
(* string is the empty tuple.  Two strings are equal exactly when their    *)
(* tuples are.  A JSON value is a record tagged by the Python type that    *)
(* json.load produces for it (field k).                                    *)
(***************************************************************************)
EXTENDS Integers, Sequences, FiniteSets, TLC

(***************************************************************************)
(* JSON values                                                             *)
(***************************************************************************)
JStr(s) == [k |-> "str", s |-> s]
JInt == [k |-> "int"]
JFloat == [k |-> "float"]
JBool == [k |-> "bool"]
JNull == [k |-> "null"]
JList(items) == [k |-> "list", items |-> items]
JDict(f) == [k |-> "dict", f |-> f]

\* The empty JSON object
NoFields == [x \in {} |-> JNull]

Kinds == {"str", "int", "float", "bool", "null", "list", "dict"}

\* A value of each kind (the content of a string is irrelevant to "type")
ValueOfKind(kind) ==
  CASE kind = "str" -> JStr(<<"x">>)
    [] kind = "int" -> JInt
    [] kind = "float" -> JFloat
    [] kind = "bool" -> JBool
    [] kind = "null" -> JNull
    [] kind = "list" -> JList(<<>>)
    [] OTHER -> JDict(NoFields)

(***************************************************************************)
(* jsonschema.validate, for the keywords the registry uses: type,          *)
(* required, properties, additionalProperties, items.  validate() is       *)
(* called without a format_checker, so "format" is an annotation that     *)
(* rejects nothing.  A bool is neither "integer" nor "number".             *)
(***************************************************************************)
\* IsType with Python's isinstance(True, int): a bool passes for a number
IsTypeBoolIsInt(v, t) ==
  CASE t = "string" -> v.k = "str"
    [] t = "number" -> v.k \in {"int", "float", "bool"}
    [] t = "integer" -> v.k \in {"int", "bool"}
    [] t = "boolean" -> v.k = "bool"
    [] t = "null" -> v.k = "null"
    [] t = "array" -> v.k = "list"
    [] t = "object" -> v.k = "dict"
    [] OTHER -> FALSE

IsType(v, t) ==
  CASE t = "string" -> v.k = "str"
    [] t = "number" -> v.k \in {"int", "float"}
    [] t = "integer" -> v.k = "int"
    [] t = "boolean" -> v.k = "bool"
    [] t = "null" -> v.k = "null"
    [] t = "array" -> v.k = "list"
    [] t = "object" -> v.k = "dict"
    [] OTHER -> FALSE

Has(s, kw) == kw \in DOMAIN s

DeclaredProps(s) == IF Has(s, "properties") THEN DOMAIN s.properties ELSE {}

RECURSIVE Valid(_, _)
Valid(v, s) ==
  /\ Has(s, "type") => \E t \in s.type : IsType(v, t)
  /\ v.k = "dict" =>
       /\ Has(s, "required") => s.required \subseteq DOMAIN v.f
       /\ \A key \in DOMAIN v.f \cap DeclaredProps(s) :
            Valid(v.f[key], s.properties[key])
       /\ (Has(s, "additionalProperties") /\ s.additionalProperties = FALSE)
            => DOMAIN v.f \subseteq DeclaredProps(s)
  /\ v.k = "list" =>
       (Has(s, "items") => \A i \in DOMAIN v.items : Valid(v.items[i], s.items))

(***************************************************************************)
(* schemas.py: the envelope schema and the registry                        *)
(***************************************************************************)
TStr == [type |-> {"string"}]
TStrNull == [type |-> {"string", "null"}]
TDateTime == [type |-> {"string"}, format |-> "date-time"]
TDate == [type |-> {"string"}, format |-> "date"]
TNum == [type |-> {"number"}]
TInt == [type |-> {"integer"}]
TBool == [type |-> {"boolean"}]

ENVELOPE ==
  [ type |-> {"object"},
    required |-> {"event", "version", "data", "meta"},
    properties |->
      [ event |-> TStr,
        version |-> TStr,
        data |-> [type |-> {"object"}],
        meta |->
          [ type |-> {"object"},
            required |-> {"occurred_at", "producer"},
            properties |->
              [ occurred_at |-> TDateTime,
                producer |-> TStr,
                correlation_id |-> TStr,
                causation_id |-> TStr ],
            additionalProperties |-> TRUE ] ],
    additionalProperties |-> FALSE ]

EventSchema(req, props, additional) ==
  [ type |-> {"object"}, required |-> req, properties |-> props,
    additionalProperties |-> additional ]

S_transit_recorded ==
  EventSchema({"transit_id", "toll_id", "toll_name", "lane", "vehicle_id",
               "vehicle_type", "timestamp"},
    [ transit_id |-> TStr, toll_id |-> TStr, toll_name |-> TStr, lane |-> TStr,
      vehicle_id |-> TStr, vehicle_type |-> TStr, timestamp |-> TDateTime,
      details |-> TStr ], FALSE)

S_plate_captured ==
  EventSchema({"toll_id", "lane", "image_id", "plate", "confidence", "timestamp"},
    [ toll_id |-> TStr, lane |-> TStr, image_id |-> TStr, plate |-> TStr,
      confidence |-> TNum, timestamp |-> TDateTime ], FALSE)

S_toll_status_updated ==
  EventSchema({"toll_id", "toll_name", "open_lanes", "closed_lanes", "timestamp"},
    [ toll_id |-> TStr, toll_name |-> TStr, open_lanes |-> TInt,
      closed_lanes |-> TInt, timestamp |-> TDateTime,
      alerts |->
        [ type |-> {"array"},
          items |->
            [ type |-> {"object"},
              required |-> {"type", "time"},
              properties |->
                [ type |-> TStr, lane |-> TStrNull, time |-> TDateTime ] ] ] ],
    FALSE)

S_rate_updated ==
  EventSchema({"rate_id", "category_id", "peak_price", "offpeak_price",
               "valid_from", "valid_to"},
    [ rate_id |-> TStr, category_id |-> TStr, peak_price |-> TNum,
      offpeak_price |-> TNum, valid_from |-> TDate, valid_to |-> TDate ], FALSE)

S_vehicle_category_changed ==
  EventSchema({"vehicle_id", "old_category_id", "new_category_id", "timestamp"},
    [ vehicle_id |-> TStr, old_category_id |-> TStr, new_category_id |-> TStr,
      timestamp |-> TDateTime ], FALSE)

S_payment_recorded ==
  EventSchema({"payment_id", "toll_id", "toll_name", "cashier_id", "timestamp",
               "payment_method", "amount", "reason"},
    [ payment_id |-> TStr, toll_id |-> TStr, toll_name |-> TStr,
      cashier_id |-> TStr, timestamp |-> TDateTime, payment_method |-> TStr,
      amount |-> TNum, reason |-> TStr ], FALSE)

S_prepaid_balance_updated ==
  EventSchema({"account_id", "vehicle_id", "delta", "balance", "timestamp",
               "source"},
    [ account_id |-> TStr, vehicle_id |-> TStr, delta |-> TNum, balance |-> TNum,
      timestamp |-> TDateTime, source |-> TStr ], FALSE)

S_debt_created ==
  EventSchema({"debt_id", "vehicle_id", "amount", "origin", "timestamp"},
    [ debt_id |-> TStr, vehicle_id |-> TStr, amount |-> TNum, origin |-> TStr,
      timestamp |-> TDateTime ], FALSE)

S_debt_settled ==
  EventSchema({"debt_id", "vehicle_id", "amount", "timestamp"},
    [ debt_id |-> TStr, vehicle_id |-> TStr, amount |-> TNum,
      timestamp |-> TDateTime ], FALSE)

S_fine_issued ==
  EventSchema({"fine_id", "vehicle_id", "timestamp", "amount", "infraction_type",
               "state"},
    [ fine_id |-> TStr, vehicle_id |-> TStr, timestamp |-> TDateTime,
      amount |-> TNum, infraction_type |-> TStr, state |-> TStr,
      transit_id |-> TStrNull ], FALSE)

S_customer_upserted ==
  EventSchema({"customer_id", "name", "is_active"},
    [ customer_id |-> TStr, name |-> TStr, is_active |-> TBool ], TRUE)

S_vehicle_upserted ==
  EventSchema({"vehicle_id", "plate", "category_id"},
    [ vehicle_id |-> TStr, plate |-> TStr, category_id |-> TStr ], TRUE)

S_audit_logged ==
  EventSchema({"event_id", "event_type", "timestamp", "toll_name", "details"},
    [ event_id |-> TStr, event_type |-> TStr, timestamp |-> TDateTime,
      toll_name |-> TStr, details |-> TStr, vehicle_id |-> TStrNull ], FALSE)

SCHEMAS ==
  (<<"transit", "recorded">> :> S_transit_recorded)
  @@ (<<"plate", "captured">> :> S_plate_captured)
  @@ (<<"toll", "status", "updated">> :> S_toll_status_updated)
  @@ (<<"rate", "updated">> :> S_rate_updated)
  @@ (<<"vehicle", "category", "changed">> :> S_vehicle_category_changed)
  @@ (<<"payment", "recorded">> :> S_payment_recorded)
  @@ (<<"prepaid", "balance", "updated">> :> S_prepaid_balance_updated)
  @@ (<<"debt", "created">> :> S_debt_created)
  @@ (<<"debt", "settled">> :> S_debt_settled)
  @@ (<<"fine", "issued">> :> S_fine_issued)
  @@ (<<"customer", "upserted">> :> S_customer_upserted)
  @@ (<<"vehicle", "upserted">> :> S_vehicle_upserted)
  @@ (<<"audit", "logged">> :> S_audit_logged)

Registered(event) == event \in DOMAIN SCHEMAS

(***************************************************************************)
(* Input envelopes.  An input is described by the event it names, by       *)
(* whether its data carries the optional declared fields, and by one edit  *)
(* of the envelope (em) and one edit of the data (dm) applied to a         *)
(* well-formed envelope of that event.                                     *)
(***************************************************************************)
RECURSIVE Sample(_)
\* A value that satisfies schema s, with every declared property present
Sample(s) ==
  IF "object" \in s.type
    THEN JDict([key \in DeclaredProps(s) |-> Sample(s.properties[key])])
  ELSE IF "array" \in s.type THEN JList(<<Sample(s.items)>>)
  ELSE IF "string" \in s.type THEN JStr(<<"x">>)
  ELSE IF "integer" \in s.type THEN JInt
  ELSE IF "number" \in s.type THEN JFloat
  ELSE IF "boolean" \in s.type THEN JBool
  ELSE JNull

Restrict(f, keys) == [key \in DOMAIN f \cap keys |-> f[key]]

With(f, key, v) == [kk \in DOMAIN f \cup {key} |-> IF kk = key THEN v ELSE f[kk]]

UnregisteredEvents == {<<"lane", "passage", "detected">>, <<>>}

InputEvents == DOMAIN SCHEMAS \cup UnregisteredEvents

Undeclared == "zz_undeclared"

BaseData(event, opt) ==
  IF Registered(event)
    THEN LET full == Sample(SCHEMAS[event])
         IN  IF opt THEN full ELSE JDict(Restrict(full.f, SCHEMAS[event].required))
    ELSE JDict(NoFields)

NoEdit == [op |-> "none", key |-> "", kind |-> ""]

DataEdits(event, opt) ==
  LET keys == DOMAIN BaseData(event, opt).f
  IN  {NoEdit}
      \cup {[op |-> "drop", key |-> key, kind |-> ""] : key \in keys}
      \cup {[op |-> "retype", key |-> key, kind |-> kind] :
              key \in keys, kind \in Kinds}
      \cup {[op |-> "extra", key |-> Undeclared, kind |-> "str"]}

ApplyEdit(v, ed) ==
  CASE ed.op = "drop" -> JDict(Restrict(v.f, DOMAIN v.f \ {ed.key}))
    [] ed.op = "retype" -> JDict(With(v.f, ed.key, ValueOfKind(ed.kind)))
    [] ed.op = "extra" -> JDict(With(v.f, ed.key, ValueOfKind(ed.kind)))
    [] OTHER -> v

BaseMeta ==
  JDict([occurred_at |-> JStr(<<"2025-01-01T00:00:00Z">>),
         producer |-> JStr(<<"m3">>)])

EnvelopeEdits ==
  {NoEdit, [op |-> "nonobject", key |-> "", kind |-> "list"]}
  \cup {[op |-> "drop", key |-> key, kind |-> ""] :
          key \in {"event", "version", "data", "meta"}}
  \cup {[op |-> "retype", key |-> "event", kind |-> "int"],
        [op |-> "retype", key |-> "version", kind |-> "float"],
        [op |-> "retype", key |-> "data", kind |-> "str"],
        [op |-> "retype", key |-> "data", kind |-> "list"],
        [op |-> "retype", key |-> "meta", kind |-> "null"],
        [op |-> "extra", key |-> Undeclared, kind |-> "str"],
        [op |-> "meta_drop", key |-> "occurred_at", kind |-> ""],
        [op |-> "meta_drop", key |-> "producer", kind |-> ""],
        [op |-> "meta_retype", key |-> "occurred_at", kind |-> "int"],
        [op |-> "meta_retype", key |-> "correlation_id", kind |-> "str"],
        [op |-> "meta_retype", key |-> "correlation_id", kind |-> "int"],
        [op |-> "meta_retype", key |-> Undeclared, kind |-> "int"]}

BuildMeta(em) ==
  CASE em.op = "meta_drop" -> ApplyEdit(BaseMeta, [em EXCEPT !.op = "drop"])
    [] em.op = "meta_retype" -> ApplyEdit(BaseMeta, [em EXCEPT !.op = "retype"])
    [] OTHER -> BaseMeta

BuildEnvelope(inp) ==
  LET base == JDict([event |-> JStr(inp.event),
                     version |-> JStr(<<"1", "0">>),
                     data |-> ApplyEdit(BaseData(inp.event, inp.opt), inp.dm),
                     meta |-> BuildMeta(inp.em)])
  IN  IF inp.em.op = "nonobject" THEN ValueOfKind(inp.em.kind)
      ELSE ApplyEdit(base, inp.em)

\* Every data edit on a well-formed envelope; every envelope edit on
\* well-formed data and on two edited data.
Inputs ==
  UNION {{[event |-> e, opt |-> o, em |-> NoEdit, dm |-> dm] :
            dm \in DataEdits(e, o)} : e \in InputEvents, o \in BOOLEAN}
  \cup
  {[event |-> e, opt |-> TRUE, em |-> em, dm |-> dm] :
     e \in InputEvents, em \in EnvelopeEdits,
     dm \in {NoEdit, [op |-> "extra", key |-> Undeclared, kind |-> "str"]}}

(***************************************************************************)
(* JSON text.  json.dumps writes a value as a sequence of tokens and       *)
(* json.loads reads one back; a token is a punctuation mark, a string, a   *)
(* number or a literal.  Texts are word tuples like every dotted string    *)
(* here: an integer is written <<"1">> and a float <<"1", "5">> (1.5).      *)
(* Object keys are single words.                                           *)
(***************************************************************************)
Tok(t, text) == [t |-> t, text |-> text]

Punct(mark) == Tok("punct", <<mark>>)

RECURSIVE KeySeq(_)
\* The keys of a dict in the order they are written (for a dict read from a
\* file, the order of the file; any order decodes to the same dict)
KeySeq(keys) ==
  IF keys = {} THEN <<>>
  ELSE LET key == CHOOSE key \in keys : TRUE
       IN  <<key>> \o KeySeq(keys \ {key})

RECURSIVE DumpValue(_)
RECURSIVE DumpItems(_)
RECURSIVE DumpFields(_, _)
DumpValue(v) ==
  CASE v.k = "str" -> <<Tok("string", v.s)>>
    [] v.k = "int" -> <<Tok("number", <<"1">>)>>
    [] v.k = "float" -> <<Tok("number", <<"1", "5">>)>>
    [] v.k = "bool" -> <<Tok("literal", <<"true">>)>>
    [] v.k = "null" -> <<Tok("literal", <<"null">>)>>
    [] v.k = "list" -> <<Punct("[")>> \o DumpItems(v.items) \o <<Punct("]")>>
    [] OTHER -> <<Punct("{")>> \o DumpFields(v.f, KeySeq(DOMAIN v.f))
                \o <<Punct("}")>>

DumpItems(items) ==
  IF items = <<>> THEN <<>>
  ELSE DumpValue(Head(items))
       \o (IF Tail(items) = <<>> THEN <<>>
           ELSE <<Punct(",")>> \o DumpItems(Tail(items)))

DumpFields(f, keys) ==
  IF keys = <<>> THEN <<>>
  ELSE <<Tok("string", <<Head(keys)>>), Punct(":")>>
       \o DumpValue(f[Head(keys)])
       \o (IF Tail(keys) = <<>> THEN <<>>
           ELSE <<Punct(",")>> \o DumpFields(f, Tail(keys)))

\* json.dumps of the envelope with its "meta" left out
DumpsWithoutMeta(v) ==
  DumpValue(JDict(Restrict(v.f, DOMAIN v.f \ {"meta"})))

\* json.dumps(v)
Dumps(v) == DumpValue(v)

\* text.encode("utf-8")
Encode(text) == [encoding |-> "utf-8", text |-> text]

ParseFail == [ok |-> FALSE, v |-> JNull, rest |-> <<>>]

Parsed(v, rest) == [ok |-> TRUE, v |-> v, rest |-> rest]

RECURSIVE ParseValue(_)
RECURSIVE ParseItems(_, _)
RECURSIVE ParseFields(_, _)
ParseValue(ts) ==
  IF ts = <<>> THEN ParseFail
  ELSE LET h == Head(ts)
           r == Tail(ts)
       IN  CASE h.t = "string" -> Parsed(JStr(h.text), r)
             [] h.t = "number" ->
                  Parsed(IF Len(h.text) = 1 THEN JInt ELSE JFloat, r)
             [] h.t = "literal" ->
                  Parsed(IF h.text = <<"null">> THEN JNull ELSE JBool, r)
             [] h = Punct("[") ->
                  IF r # <<>> /\ Head(r) = Punct("]")
                    THEN Parsed(JList(<<>>), Tail(r))
                    ELSE ParseItems(r, <<>>)
             [] h = Punct("{") ->
                  IF r # <<>> /\ Head(r) = Punct("}")
                    THEN Parsed(JDict(NoFields), Tail(r))
                    ELSE ParseFields(r, NoFields)
             [] OTHER -> ParseFail

\* The items of an array after "[" or ",", up to and including "]"
ParseItems(ts, acc) ==
  LET item == ParseValue(ts)
  IN  IF ~item.ok \/ item.rest = <<>> THEN ParseFail
      ELSE IF Head(item.rest) = Punct(",")
        THEN ParseItems(Tail(item.rest), Append(acc, item.v))
      ELSE IF Head(item.rest) = Punct("]")
        THEN Parsed(JList(Append(acc, item.v)), Tail(item.rest))
      ELSE ParseFail

\* The members of an object after "{" or ",", up to and including "}"
ParseFields(ts, f) ==
  IF Len(ts) < 2 \/ ts[1].t # "string" \/ Len(ts[1].text) # 1
     \/ ts[2] # Punct(":")
    THEN ParseFail
  ELSE LET member == ParseValue(Tail(Tail(ts)))
           g == With(f, ts[1].text[1], member.v)
       IN  IF ~member.ok \/ member.rest = <<>> THEN ParseFail
           ELSE IF Head(member.rest) = Punct(",")
             THEN ParseFields(Tail(member.rest), g)
           ELSE IF Head(member.rest) = Punct("}")
             THEN Parsed(JDict(g), Tail(member.rest))
           ELSE ParseFail

\* json.loads(text): the value, or a failure (ValueError) when the text is
\* not one JSON value
Loads(text) ==
  LET p == ParseValue(text)
  IN  IF p.ok /\ p.rest = <<>> THEN [ok |-> TRUE, v |-> p.v]
      ELSE [ok |-> FALSE, v |-> JNull]

(***************************************************************************)
(* Configuration (config.json, read at start-up): the exchange, the        *)
(* dead-letter exchange, the TTL and the queue specs.  Queue names are     *)
(* dotted strings, so that name + ".dlq" is Append(name, "dlq").           *)
(***************************************************************************)
DefaultTtlMs == 604800000

RAB == [exchange |-> <<"tolling", "topic">>, exchange_type |-> "topic"]

TOPO ==
  [ dlx |-> <<"tolling", "dlx">>,
    ttl_ms |-> DefaultTtlMs,
    queues |->
      << [name |-> <<"ops", "q">>,
          bindings |-> << <<"transit", "*">>, <<"toll", "status", "#">> >>],
         [name |-> <<"pay", "q">>,
          bindings |-> << <<"payment", "recorded">>, <<"debt", "*">> >>] >> ]

(***************************************************************************)
(* The broker, as the declarations and the publishes of the code see it:   *)
(* declaring what exists with the same arguments changes nothing,          *)
(* declaring it with other arguments is refused, a binding needs its queue *)
(* and its exchange, and a topic exchange routes by pattern ("*" one word, *)
(* "#" zero or more words).                                                *)
(***************************************************************************)
EmptyBroker == [exchanges |-> {}, queues |-> {}, bindings |-> {}]

NoArguments == [x \in {} |-> 0]

QueueArguments(dlx, ttl) ==
  ("x-dead-letter-exchange" :> dlx) @@ ("x-message-ttl" :> ttl)

Refused(b) == [ok |-> FALSE, broker |-> b]

Accepted(b) == [ok |-> TRUE, broker |-> b]

ExchangeDeclare(b, d) ==
  LET same == {x \in b.exchanges : x.name = d.exchange}
      new == [name |-> d.exchange, type |-> d.exchange_type, durable |-> d.durable]
  IN  IF same = {} THEN Accepted([b EXCEPT !.exchanges = @ \cup {new}])
      ELSE IF same = {new} THEN Accepted(b)
      ELSE Refused(b)

QueueDeclare(b, d) ==
  LET same == {q \in b.queues : q.name = d.queue}
      new == [name |-> d.queue, durable |-> d.durable, arguments |-> d.arguments]
  IN  IF same = {} THEN Accepted([b EXCEPT !.queues = @ \cup {new}])
      ELSE IF same = {new} THEN Accepted(b)
      ELSE Refused(b)

QueueBind(b, d) ==
  IF /\ \E q \in b.queues : q.name = d.queue
     /\ \E x \in b.exchanges : x.name = d.exchange
    THEN Accepted([b EXCEPT !.bindings = @ \cup
           {[queue |-> d.queue, exchange |-> d.exchange,
             routing_key |-> d.routing_key]}])
    ELSE Refused(b)

\* The broker's answer to one declaration d of a channel
Execute(b, d) ==
  CASE d.op = "exchange_declare" -> ExchangeDeclare(b, d)
    [] d.op = "queue_declare" -> QueueDeclare(b, d)
    [] OTHER -> QueueBind(b, d)

RECURSIVE TopicMatch(_, _)
TopicMatch(pattern, key) ==
  IF pattern = <<>> THEN key = <<>>
  ELSE IF Head(pattern) = "#"
    THEN \/ TopicMatch(Tail(pattern), key)
         \/ key # <<>> /\ TopicMatch(pattern, Tail(key))
  ELSE IF key = <<>> THEN FALSE
  ELSE /\ Head(pattern) \in {"*", Head(key)}
       /\ TopicMatch(Tail(pattern), Tail(key))

\* The queues an exchange hands a message with this routing key to
RoutedTo(b, exchange, key) ==
  LET x == CHOOSE x \in b.exchanges : x.name = exchange
  IN  {bd.queue : bd \in {c \in b.bindings :
         /\ c.exchange = exchange
         /\ x.type = "fanout" \/ TopicMatch(c.routing_key, key)}}

(***************************************************************************)
(* The declaration sequence of ensure_topology / _ensure_topology, in the  *)
(* order the code issues it.                                               *)
(***************************************************************************)
DeclQueue(name, arguments) ==
  [op |-> "queue_declare", queue |-> name, durable |-> TRUE,
   arguments |-> arguments]

DeclBind(name, exchange, key) ==
  [op |-> "queue_bind", queue |-> name, exchange |-> exchange,
   routing_key |-> key]

DeclExchange(name, type) ==
  [op |-> "exchange_declare", exchange |-> name, exchange_type |-> type,
   durable |-> TRUE]

\* The declarations for one queue without the binding of its .dlq queue
QueueDeclsDlqUnbound(q) ==
  LET ttl == TOPO.ttl_ms
      dlq == Append(q.name, "dlq")
  IN  <<DeclQueue(q.name, QueueArguments(TOPO.dlx, ttl))>>
      \o [i \in 1..Len(q.bindings) |-> DeclBind(q.name, RAB.exchange, q.bindings[i])]
      \o <<DeclQueue(dlq, NoArguments)>>

QueueDecls(q) ==
  LET ttl == TOPO.ttl_ms
      dlq == Append(q.name, "dlq")
  IN  <<DeclQueue(q.name, QueueArguments(TOPO.dlx, ttl))>>
      \o [i \in 1..Len(q.bindings) |-> DeclBind(q.name, RAB.exchange, q.bindings[i])]
      \o <<DeclQueue(dlq, NoArguments), DeclBind(dlq, TOPO.dlx, <<>>)>>

RECURSIVE AllQueueDecls(_)
AllQueueDecls(qs) ==
  IF qs = <<>> THEN <<>> ELSE QueueDecls(Head(qs)) \o AllQueueDecls(Tail(qs))

Declarations ==
  <<DeclExchange(TOPO.dlx, "fanout"),
    DeclExchange(RAB.exchange, RAB.exchange_type)>>
  \o AllQueueDecls(TOPO.queues)

RECURSIVE ApplyAll(_, _)
\* The whole sequence against broker b, stopping at the first refusal
ApplyAll(b, ds) ==
  IF ds = <<>> THEN Accepted(b)
  ELSE LET r == Execute(b, Head(ds))
       IN  IF r.ok THEN ApplyAll(r.broker, Tail(ds)) ELSE r

Provisioned == ApplyAll(EmptyBroker, Declarations).broker

ExchangesOnly == ApplyAll(EmptyBroker, SubSeq(Declarations, 1, 2)).broker

(***************************************************************************)
(* State                                                                   *)
(***************************************************************************)
VARIABLES
  broker,      \* the broker's exchanges, queues and bindings
  pubInput,    \* how the publisher's input envelope was built (see Inputs)
  envelope,    \* publisher.py: the envelope read from the file or stdin
  rkArg,       \* publisher.py: args.routing_key (given = FALSE: None)
  pubPc,       \* publisher.py: index in PubProgram of the next statement
  pubPassed,   \* publisher.py: the statements that completed
  evt,         \* publisher.py: evt
  rk,          \* publisher.py: rk
  pubExit,     \* publisher.py: how main() ended and what it reported
  pubNet,      \* publisher.py: the calls made on the network, in order
  pubChannel,  \* publisher.py: ch, with what the broker sent back on it
  brokerLog,   \* the messages the broker received, with what it did
  conns,       \* the connections RabbitClient opened: conns[i] is the i-th
  clientConn,  \* RabbitClient._conn (0: None, else an index of conns)
  clientCh,    \* RabbitClient._ch (0: None, else the connection it is on)
  clientLock,  \* RabbitClient._lock: the thread holding it, or "free"
  lastError,   \* RabbitClient._last_error
  topologyReady, \* RabbitClient._topology_ready
  tpc,         \* per request thread: where it is in health()/ensure_topology()
  tidx,        \* per thread: the next declaration of the sequence
  tdelay,      \* per thread: delay of _ensure_connection
  tfails,      \* per thread: failed attempts of the running reconnect loop
  tslept,      \* per thread: the time.sleep() arguments of that loop, in order
  tret,        \* per thread: what ensure_topology() returned
  tresp,       \* per thread: the last /health response
  tcalls,      \* per thread: the /health requests made
  tcall,       \* per thread: what this call has done so far
  returnedTrue, \* connections opened when ensure_topology() first returned
               \* True (-1: it has not)
  runsInEpoch, \* declaration sequences completed on the current connection
  drops,       \* connections of RabbitClient lost so far
  brokerReachable,   \* the broker accepts new connections
  chfails,     \* times conn.channel() raised on a fresh connection
  wconns,      \* worker.py: the connections run_consumer opened
  wpc,         \* worker.py: where run_consumer is
  widx,        \* worker.py: the next declaration of _ensure_topology
  wissued,     \* worker.py: the declarations issued on the current channel
  wqi,         \* worker.py: the next queue of the basic_consume loop
  wconsumers,  \* worker.py: the queues consumed on the current channel
  backoff,     \* worker.py: backoff
  wslept,      \* worker.py: the time.sleep() arguments, in order
  wstreak,     \* worker.py: failures since backoff was last set to 1.0
  wfails,      \* worker.py: connection attempts that failed
  wdrops,      \* worker.py: connections of the worker lost so far
  wsettled,    \* worker.py: what on_msg did with each delivery
  wapplied,    \* worker.py: runs of _ensure_topology that completed
  wsnapshot,   \* the broker as the first completed run left it
  wrefused,    \* a declaration was refused after a completed run
  regInput,    \* how the envelope checked against both registries was built
  regPc,       \* the registries: the envelope is still to check, or checked
  regVerdict,  \* the registries: what each registry says of the envelope
  regListed,   \* app_bus.py: the response of GET /schemas
  bootModules, \* bootstrap_rabbit.py: CFG["modules"], in the order of the file
  bootPc,      \* bootstrap_rabbit.py: the number of the next rq() call of main()
  bootSent,    \* bootstrap_rabbit.py: the requests sent, in order
  bootStatus,  \* bootstrap_rabbit.py: the status of the last response (0: none)
  bootOut,     \* bootstrap_rabbit.py: what was printed, in order
  bootExit     \* bootstrap_rabbit.py: running, or how the program ended

pubVars ==
  <<pubInput, envelope, rkArg, pubPc, pubPassed, evt, rk, pubExit, pubNet,
    pubChannel, brokerLog>>

clientVars ==
  <<conns, clientConn, clientCh, clientLock, lastError, topologyReady, tpc,
    tidx, tdelay, tfails, tslept, tret, tresp, tcalls, tcall, returnedTrue,
    runsInEpoch, drops, brokerReachable, chfails>>

workerVars ==
  <<wconns, wpc, widx, wissued, wqi, wconsumers, backoff, wslept, wstreak,
    wfails, wdrops, wsettled, wapplied, wsnapshot, wrefused>>

registryVars == <<regInput, regPc, regVerdict, regListed>>

bootVars == <<bootModules, bootPc, bootSent, bootStatus, bootOut, bootExit>>

vars == <<broker, pubVars, clientVars, workerVars, registryVars, bootVars>>

\* What the steps of one program leave alone: the state of the others
nonPubVars == <<clientVars, workerVars, registryVars, bootVars>>

nonClientVars == <<pubVars, workerVars, registryVars, bootVars>>

nonWorkerVars == <<pubVars, clientVars, registryVars, bootVars>>

nonRegistryVars == <<pubVars, clientVars, workerVars, bootVars>>

nonBootVars == <<pubVars, clientVars, workerVars, registryVars>>

(***************************************************************************)
(* publisher.py: main()                                                    *)
(***************************************************************************)
\* The statements of main() after the envelope is loaded, in order
\* main() with the connection opened before the envelope is validated
PubProgramConnectFirst ==
  <<"connect", "validate_envelope", "lookup_schema", "validate_data",
    "publish", "close">>

PubProgram ==
  <<"validate_envelope", "lookup_schema", "validate_data", "connect",
    "publish", "close">>

PubStep == IF pubPc \in DOMAIN PubProgram THEN PubProgram[pubPc] ELSE "done"

PubDone == PubStep = "done"

Running == [how |-> "running", what |-> <<>>]

Raised(exc) == [how |-> "raised", what |-> <<exc>>]

\* The exit of an unregistered event with a message that omits the event
SchemaNotRegisteredExitUnnamed(event) ==
  [how |-> "exit", what |-> <<"Schema no registrado">>]

\* raise SystemExit(f"Schema no registrado: {evt}")
SchemaNotRegisteredExit(event) ==
  [how |-> "exit", what |-> <<"Schema no registrado", event>>]

\* print(f"OK: {rk}") and a normal return
ReportedOk(key) == [how |-> "returned", what |-> <<"OK", key>>]

EnvelopeOk(env) == Valid(env, ENVELOPE)

\* main() without its validate(envelope["data"], schema)
DataOkSkipped(env) == TRUE

DataOk(env) == Valid(env.f.data, SCHEMAS[env.f.event.s])

NoChannel ==
  [open |-> FALSE, confirm |-> FALSE, on_return |-> FALSE, returns |-> <<>>,
   acks |-> 0]

RoutingKeyArgs ==
  {[given |-> FALSE, key |-> <<>>],
   [given |-> TRUE, key |-> <<>>],
   [given |-> TRUE, key |-> <<"transit", "recorded">>],
   [given |-> TRUE, key |-> <<"fine", "issued">>]}

PubInit ==
  /\ pubInput \in Inputs
  /\ envelope = BuildEnvelope(pubInput)
  /\ rkArg \in RoutingKeyArgs
  /\ pubPc = 1
  /\ pubPassed = {}
  /\ evt = <<>>
  /\ rk = <<>>
  /\ pubExit = Running
  /\ pubNet = <<>>
  /\ pubChannel = NoChannel
  /\ brokerLog = <<>>

PubPass ==
  /\ pubPc' = pubPc + 1
  /\ pubPassed' = pubPassed \cup {PubStep}

PubFail(exit) ==
  /\ pubPc' = Len(PubProgram) + 1
  /\ pubExit' = exit
  /\ UNCHANGED pubPassed

\* validate(envelope, ENVELOPE_SCHEMA)
PubValidateEnvelope ==
  /\ PubStep = "validate_envelope"
  /\ IF EnvelopeOk(envelope)
       THEN PubPass /\ UNCHANGED pubExit
       ELSE PubFail(Raised("ValidationError"))
  /\ UNCHANGED <<nonPubVars, broker, pubInput, envelope, rkArg, evt, rk, pubNet, pubChannel,
                 brokerLog>>

\* evt = envelope["event"]; schema = SCHEMAS.get(evt); if not schema: raise
PubLookupSchema ==
  /\ PubStep = "lookup_schema"
  /\ IF envelope.k = "dict" /\ "event" \in DOMAIN envelope.f
          /\ envelope.f.event.k = "str"
       THEN /\ evt' = envelope.f.event.s
            /\ IF Registered(evt')
                 THEN PubPass /\ UNCHANGED pubExit
                 ELSE PubFail(SchemaNotRegisteredExit(evt'))
       ELSE \* envelope["event"] on something without a usable event
            /\ PubFail(Raised(IF envelope.k = "dict" THEN "KeyError"
                              ELSE "TypeError"))
            /\ UNCHANGED evt
  /\ UNCHANGED <<nonPubVars, broker, pubInput, envelope, rkArg, rk, pubNet, pubChannel,
                 brokerLog>>

\* validate(envelope["data"], schema)
PubValidateData ==
  /\ PubStep = "validate_data"
  /\ IF DataOk(envelope)
       THEN PubPass /\ UNCHANGED pubExit
       ELSE PubFail(Raised("ValidationError"))
  /\ UNCHANGED <<nonPubVars, broker, pubInput, envelope, rkArg, evt, rk, pubNet, pubChannel,
                 brokerLog>>

\* cfg = load_cfg(); conn = pika.BlockingConnection(params); ch = conn.channel()
\* (no confirm_delivery() is called on ch)
PubConnect ==
  /\ PubStep = "connect"
  /\ pubNet' = Append(pubNet, "connect")
  /\ \E reachable \in BOOLEAN :
       IF reachable
         THEN /\ PubPass
              /\ pubChannel' = [NoChannel EXCEPT !.open = TRUE]
              /\ UNCHANGED pubExit
         ELSE /\ PubFail(Raised("AMQPConnectionError"))
              /\ UNCHANGED pubChannel
  /\ UNCHANGED <<nonPubVars, broker, pubInput, envelope, rkArg, evt, rk, brokerLog>>

\* properties=pika.BasicProperties(content_type=..., delivery_mode=2)
PubProperties(env) == [content_type |-> "application/json", delivery_mode |-> 2]

\* The basic_publish call of main(): mandatory is not passed (pika: False)
PubMessage(env, key) ==
  [ exchange |-> RAB.exchange,
    routing_key |-> key,
    body |-> Encode(Dumps(env)),
    properties |-> PubProperties(env),
    mandatory |-> FALSE ]

\* What the broker does with a message published on channel ch
BrokerReceive(b, ch, msg) ==
  LET routed == RoutedTo(b, msg.exchange, msg.routing_key)
  IN  [ msg |-> msg,
        routed |-> routed,
        returned |-> msg.mandatory /\ routed = {},
        acked |-> ch.confirm ]

\* The routing key is always the event
RoutingKeyEventOnly(arg, event) == event

\* args.routing_key or evt: an absent (None) or empty override is falsy
RoutingKey(arg, event) ==
  IF arg.given /\ arg.key # <<>> THEN arg.key ELSE event

\* rk = args.routing_key or evt; ch.basic_publish(...)
PubPublish ==
  /\ PubStep = "publish"
  /\ rk' = RoutingKey(rkArg, evt)
  /\ pubNet' = Append(pubNet, "publish")
  /\ \E delivered \in BOOLEAN :
       IF delivered /\ pubChannel.open
         THEN LET got == BrokerReceive(broker, pubChannel, PubMessage(envelope, rk'))
              IN  /\ brokerLog' = Append(brokerLog, got)
                  /\ pubChannel' =
                       [pubChannel EXCEPT
                          !.returns = IF got.returned THEN Append(@, got.msg) ELSE @,
                          !.acks = IF got.acked THEN @ + 1 ELSE @]
                  /\ PubPass
                  /\ UNCHANGED pubExit
         ELSE /\ PubFail(Raised("AMQPError"))
              /\ pubChannel' = [pubChannel EXCEPT !.open = FALSE]
              /\ UNCHANGED brokerLog
  /\ UNCHANGED <<nonPubVars, broker, pubInput, envelope, rkArg, evt>>

\* conn.close(); print(f"OK: {rk}")
PubClose ==
  /\ PubStep = "close"
  /\ pubNet' = Append(pubNet, "close")
  /\ pubChannel' = [pubChannel EXCEPT !.open = FALSE]
  /\ pubPc' = pubPc + 1
  /\ pubPassed' = pubPassed \cup {PubStep}
  /\ pubExit' = ReportedOk(rk)
  /\ UNCHANGED <<nonPubVars, broker, pubInput, envelope, rkArg, evt, rk, brokerLog>>

PubNext ==
  \/ PubValidateEnvelope
  \/ PubLookupSchema
  \/ PubValidateData
  \/ PubConnect
  \/ PubPublish
  \/ PubClose

(***************************************************************************)
(* app_bus.py: RabbitClient and the /health handler, run by request        *)
(* threads.  A connection record holds what the broker side is (alive) and *)
(* what pika's objects say (is_open for the connection, ch_is_open for the *)
(* channel opened on it); pika learns of a lost connection only when an    *)
(* operation on it fails.                                                  *)
(***************************************************************************)
Threads == {"t1", "t2"}

MaxCalls == 2

MaxConnectFailures == 6

MaxDrops == 1

MaxChannelFailures == 1

MaxSleep == 15

\* What one call of ensure_topology has met and done so far: it began after
\* a call had returned True (after), began while the client's connection was
\* lost (afterDrop), was inside the call when another caller set the flag
\* (raced), made a connection attempt (connected), issued a declaration
\* (declared), had a declaration raise (failed), had one refused by the
\* broker (refused)
NoCall ==
  [after |-> FALSE, afterDrop |-> FALSE, raced |-> FALSE, connected |-> FALSE,
   declared |-> FALSE, failed |-> FALSE, refused |-> FALSE]

NoResponse == [ok |-> FALSE, error |-> "none", status |-> 0]

ClientInit ==
  /\ conns = <<>>
  /\ clientConn = 0
  /\ clientCh = 0
  /\ clientLock = "free"
  /\ lastError = "none"
  /\ topologyReady = FALSE
  /\ tpc = [t \in Threads |-> "idle"]
  /\ tidx = [t \in Threads |-> 1]
  /\ tdelay = [t \in Threads |-> 1]
  /\ tfails = [t \in Threads |-> 0]
  /\ tslept = [t \in Threads |-> <<>>]
  /\ tret = [t \in Threads |-> FALSE]
  /\ tresp = [t \in Threads |-> NoResponse]
  /\ tcalls = [t \in Threads |-> 0]
  /\ tcall = [t \in Threads |-> NoCall]
  /\ returnedTrue = -1
  /\ runsInEpoch = 0
  /\ drops = 0
  /\ brokerReachable = TRUE
  /\ chfails = 0

\* if self._topology_ready: return True  (both tests of ensure_topology)
\* ensure_topology without the _topology_ready checks
AlreadyReadyNever == FALSE

AlreadyReady == topologyReady

\* self._conn and self._conn.is_open and self._ch and self._ch.is_open
ConnectionUsable ==
  /\ clientConn # 0
  /\ conns[clientConn].is_open
  /\ clientCh # 0
  /\ conns[clientCh].ch_is_open

Min(a, b) == IF a <= b THEN a ELSE b

Goto(t, label) == tpc' = [tpc EXCEPT ![t] = label]

Returns(t, value) ==
  /\ tret' = [tret EXCEPT ![t] = value]
  /\ returnedTrue' =
       IF value /\ returnedTrue = -1 THEN Len(conns) ELSE returnedTrue

\* A request thread enters health(): ok = RB.ensure_topology()
HealthCall(t) ==
  /\ tpc[t] = "idle"
  /\ tcalls[t] < MaxCalls
  /\ tcalls' = [tcalls EXCEPT ![t] = @ + 1]
  /\ tcall' = [tcall EXCEPT ![t] =
       [NoCall EXCEPT !.after = returnedTrue # -1,
                      !.afterDrop = clientConn # 0 /\ ~conns[clientConn].alive]]
  /\ tfails' = [tfails EXCEPT ![t] = 0]
  /\ tslept' = [tslept EXCEPT ![t] = <<>>]
  /\ Goto(t, "check")
  /\ UNCHANGED <<nonClientVars, brokerReachable, chfails, broker, conns, clientConn, clientCh, clientLock, lastError,
                 topologyReady, tidx, tdelay, tret, tresp, returnedTrue,
                 runsInEpoch, drops>>

\* ensure_topology: the test before the lock
CheckReady(t) ==
  /\ tpc[t] = "check"
  /\ IF AlreadyReady
       THEN Returns(t, TRUE) /\ Goto(t, "respond")
       ELSE Goto(t, "acquire") /\ UNCHANGED <<tret, returnedTrue>>
  /\ UNCHANGED <<nonClientVars, brokerReachable, chfails, broker, conns, clientConn, clientCh, clientLock, lastError,
                 topologyReady, tidx, tdelay, tfails, tslept, tresp, tcalls,
                 tcall, runsInEpoch, drops>>

\* threading.Lock() that any caller may enter at any time
LockFreeAlways == TRUE

\* threading.Lock(): it can be acquired when no thread holds it
LockFree == clientLock = "free"

\* with self._lock:
AcquireLock(t) ==
  /\ tpc[t] = "acquire"
  /\ LockFree
  /\ clientLock' = t
  /\ Goto(t, "check_locked")
  /\ UNCHANGED <<nonClientVars, brokerReachable, chfails, broker, conns, clientConn, clientCh, lastError, topologyReady,
                 tidx, tdelay, tfails, tslept, tret, tresp, tcalls, tcall,
                 returnedTrue, runsInEpoch, drops>>

\* ensure_topology: the test under the lock
CheckReadyLocked(t) ==
  /\ tpc[t] = "check_locked"
  /\ IF AlreadyReady
       THEN /\ Returns(t, TRUE)
            /\ clientLock' = "free"
            /\ Goto(t, "respond")
       ELSE /\ Goto(t, "ensure_connection")
            /\ UNCHANGED <<tret, returnedTrue, clientLock>>
  /\ UNCHANGED <<nonClientVars, brokerReachable, chfails, broker, conns, clientConn, clientCh, lastError, topologyReady,
                 tidx, tdelay, tfails, tslept, tresp, tcalls, tcall,
                 runsInEpoch, drops>>

\* _ensure_connection: return if the pair is open, else delay = 1.0 and loop
EnsureConnection(t) ==
  /\ tpc[t] = "ensure_connection"
  /\ IF ConnectionUsable
       THEN /\ Goto(t, "declare")
            /\ tidx' = [tidx EXCEPT ![t] = 1]
            /\ UNCHANGED tdelay
       ELSE /\ Goto(t, "connecting")
            /\ tdelay' = [tdelay EXCEPT ![t] = 1]
            /\ UNCHANGED tidx
  /\ UNCHANGED <<nonClientVars, brokerReachable, chfails, broker, conns, clientConn, clientCh, clientLock, lastError,
                 topologyReady, tfails, tslept, tret, tresp, tcalls, tcall,
                 returnedTrue, runsInEpoch, drops>>

OpenConnection(ch_ok) == [alive |-> TRUE, is_open |-> TRUE, ch_is_open |-> ch_ok]

\* time.sleep(delay) with no cap
SleepTimeUncapped(delay) == delay

\* time.sleep(min(delay, 15))
SleepTime(delay) == Min(delay, MaxSleep)

\* A loop that gives up after three failed attempts
RetryThreeTimes(t) == tfails[t] < 2

\* while True: the loop of _ensure_connection goes round again after a
\* failed attempt, whatever the number of failures
Retry(t) == TRUE

\* One turn of the loop of _ensure_connection.  BlockingConnection() raises
\* ("refused": the broker is unreachable), or it returns and channel() raises
\* ("no_channel": _conn is already the new connection), or both return
\* ("ok").  A failed turn records the error, sleeps min(delay, 15) and
\* doubles delay; the loop has no exit but success.  The failures of one
\* run of the loop are counted, and their sleeps and the growth of delay
\* recorded, up to MaxConnectFailures; the loop itself goes on beyond that.
\* When the loop is left, delay is gone with the frame of the call.
ConnectAttempt(t) ==
  /\ tpc[t] = "connecting"
  /\ tcall' = [tcall EXCEPT ![t].connected = TRUE]
  /\ \E outcome \in {"ok", "refused", "no_channel"} :
       /\ (outcome = "refused") = ~brokerReachable
       /\ outcome = "no_channel" => chfails < MaxChannelFailures
       /\ chfails' = IF outcome = "no_channel" THEN chfails + 1 ELSE chfails
       /\ conns' = IF outcome = "refused" THEN conns
                   ELSE Append(conns, OpenConnection(outcome = "ok"))
       /\ clientConn' = IF outcome = "refused" THEN clientConn ELSE Len(conns')
       /\ clientCh' = IF outcome = "ok" THEN Len(conns') ELSE clientCh
       /\ runsInEpoch' = IF outcome = "ok" THEN 0 ELSE runsInEpoch
       /\ IF outcome = "ok"
            THEN /\ Goto(t, "declare")
                 /\ tidx' = [tidx EXCEPT ![t] = 1]
                 /\ tdelay' = [tdelay EXCEPT ![t] = 1]
                 /\ tfails' = [tfails EXCEPT ![t] = 0]
                 /\ tslept' = [tslept EXCEPT ![t] = <<>>]
                 /\ UNCHANGED lastError
            ELSE /\ lastError' = "connect_failed"
                 /\ LET counted == tfails[t] < MaxConnectFailures
                    IN  /\ tslept' = IF counted
                                       THEN [tslept EXCEPT ![t] =
                                               Append(@, SleepTime(tdelay[t]))]
                                       ELSE tslept
                        /\ tdelay' = IF counted
                                       THEN [tdelay EXCEPT ![t] = @ * 2]
                                       ELSE tdelay
                        /\ tfails' = IF counted
                                       THEN [tfails EXCEPT ![t] = @ + 1]
                                       ELSE tfails
                 /\ IF Retry(t) THEN UNCHANGED tpc ELSE Goto(t, "except")
                 /\ UNCHANGED tidx
  /\ UNCHANGED <<nonClientVars, brokerReachable, broker, clientLock, topologyReady,
                 tret, tresp, tcalls, returnedTrue, drops>>

\* ch = self._ch and the next declaration on it.  The call raises when the
\* connection is gone, and when the broker refuses the declaration (which
\* closes the channel, not the connection).
Declare(t) ==
  /\ tpc[t] = "declare"
  /\ tidx[t] <= Len(Declarations)
  /\ LET r == Execute(broker, Declarations[tidx[t]])
     IN  IF ~conns[clientCh].alive
           THEN /\ conns' = [conns EXCEPT ![clientCh].is_open = FALSE,
                                           ![clientCh].ch_is_open = FALSE]
                /\ tcall' = [tcall EXCEPT ![t].declared = TRUE,
                                          ![t].failed = TRUE]
                /\ Goto(t, "except")
                /\ UNCHANGED <<broker, tidx>>
         ELSE IF ~r.ok
           THEN /\ conns' = [conns EXCEPT ![clientCh].ch_is_open = FALSE]
                /\ tcall' = [tcall EXCEPT ![t].declared = TRUE,
                                          ![t].failed = TRUE,
                                          ![t].refused = TRUE]
                /\ Goto(t, "except")
                /\ UNCHANGED <<broker, tidx>>
         ELSE /\ broker' = r.broker
              /\ tcall' = [tcall EXCEPT ![t].declared = TRUE]
              /\ tidx' = [tidx EXCEPT ![t] = @ + 1]
              /\ Goto(t, IF tidx[t] = Len(Declarations) THEN "set_ready"
                         ELSE "declare")
              /\ UNCHANGED conns
  /\ UNCHANGED <<nonClientVars, brokerReachable, chfails, clientConn, clientCh, clientLock, lastError, topologyReady,
                 tdelay, tfails, tslept, tret, tresp, tcalls, returnedTrue,
                 runsInEpoch, drops>>

\* self._topology_ready = True
SetReady(t) ==
  /\ tpc[t] = "set_ready"
  /\ topologyReady' = TRUE
  /\ runsInEpoch' = runsInEpoch + 1
  /\ tcall' = [u \in Threads |->
       IF u # t /\ tpc[u] \notin {"idle", "respond"}
         THEN [tcall[u] EXCEPT !.raced = TRUE] ELSE tcall[u]]
  /\ Goto(t, "return_true")
  /\ UNCHANGED <<nonClientVars, brokerReachable, chfails, broker, conns, clientConn, clientCh, clientLock, lastError,
                 tidx, tdelay, tfails, tslept, tret, tresp, tcalls,
                 returnedTrue, drops>>

\* self._last_error = None; return True (leaving the with block)
ReturnTrue(t) ==
  /\ tpc[t] = "return_true"
  /\ lastError' = "none"
  /\ clientLock' = "free"
  /\ Returns(t, TRUE)
  /\ Goto(t, "respond")
  /\ UNCHANGED <<nonClientVars, brokerReachable, chfails, broker, conns, clientConn, clientCh, topologyReady, tidx,
                 tdelay, tfails, tslept, tresp, tcalls, tcall, runsInEpoch, drops>>

\* except Exception: return True, with nothing recorded
ExceptSwallowed(t) ==
  /\ tpc[t] = "except"
  /\ clientLock' = "free"
  /\ Returns(t, TRUE)
  /\ Goto(t, "respond")
  /\ UNCHANGED <<nonClientVars, brokerReachable, chfails, broker, conns,
                 clientConn, clientCh, lastError, topologyReady, tidx, tdelay,
                 tfails, tslept, tresp, tcalls, tcall, runsInEpoch, drops>>

\* except Exception: the failure is recorded and the flag is set all the same
ExceptMarksReady(t) ==
  /\ tpc[t] = "except"
  /\ lastError' = "topology_failed"
  /\ topologyReady' = TRUE
  /\ clientLock' = "free"
  /\ Returns(t, FALSE)
  /\ Goto(t, "respond")
  /\ UNCHANGED <<nonClientVars, brokerReachable, chfails, broker, conns,
                 clientConn, clientCh, tidx, tdelay, tfails, tslept, tresp,
                 tcalls, tcall, runsInEpoch, drops>>

\* except Exception as e: self._last_error = ...; return False
Except(t) ==
  /\ tpc[t] = "except"
  /\ lastError' = "topology_failed"
  /\ clientLock' = "free"
  /\ Returns(t, FALSE)
  /\ Goto(t, "respond")
  /\ UNCHANGED <<nonClientVars, brokerReachable, chfails, broker, conns, clientConn, clientCh, topologyReady, tidx,
                 tdelay, tfails, tslept, tresp, tcalls, tcall, runsInEpoch, drops>>

\* health() answering 200 with ok true whatever ensure_topology returned
RespondAlwaysOk(t) ==
  /\ tpc[t] = "respond"
  /\ tresp' = [tresp EXCEPT ![t] =
       [ok |-> TRUE, error |-> lastError, status |-> 200]]
  /\ Goto(t, "idle")
  /\ UNCHANGED <<nonClientVars, brokerReachable, chfails, broker, conns,
                 clientConn, clientCh, clientLock, lastError, topologyReady,
                 tidx, tdelay, tfails, tslept, tret, tcalls, tcall,
                 returnedTrue, runsInEpoch, drops>>

\* health(): the response built from ok and RB.last_error
Respond(t) ==
  /\ tpc[t] = "respond"
  /\ tresp' = [tresp EXCEPT ![t] =
       [ok |-> tret[t], error |-> lastError,
        status |-> IF tret[t] THEN 200 ELSE 503]]
  /\ Goto(t, "idle")
  /\ UNCHANGED <<nonClientVars, brokerReachable, chfails, broker, conns, clientConn, clientCh, clientLock, lastError,
                 topologyReady, tidx, tdelay, tfails, tslept, tret, tcalls,
                 tcall, returnedTrue, runsInEpoch, drops>>

\* The network or the broker drops a connection
ConnectionLost ==
  /\ drops < MaxDrops
  /\ \E i \in DOMAIN conns :
       /\ conns[i].alive
       /\ conns' = [conns EXCEPT ![i].alive = FALSE]
  /\ drops' = drops + 1
  /\ UNCHANGED <<nonClientVars, brokerReachable, chfails, broker, clientConn, clientCh, clientLock, lastError,
                 topologyReady, tpc, tidx, tdelay, tfails, tslept, tret, tresp,
                 tcalls, tcall, returnedTrue, runsInEpoch>>

\* The broker stops accepting new connections
BrokerDown ==
  /\ brokerReachable
  /\ brokerReachable' = FALSE
  /\ UNCHANGED <<nonClientVars, chfails, broker, conns, clientConn, clientCh,
                 clientLock, lastError, topologyReady, tpc, tidx, tdelay,
                 tfails, tslept, tret, tresp, tcalls, tcall, returnedTrue,
                 runsInEpoch, drops>>

\* The broker accepts new connections again
BrokerUp ==
  /\ ~brokerReachable
  /\ brokerReachable' = TRUE
  /\ UNCHANGED <<nonClientVars, chfails, broker, conns, clientConn, clientCh,
                 clientLock, lastError, topologyReady, tpc, tidx, tdelay,
                 tfails, tslept, tret, tresp, tcalls, tcall, returnedTrue,
                 runsInEpoch, drops>>

ClientNext ==
  \/ \E t \in Threads :
       \/ HealthCall(t)
       \/ CheckReady(t)
       \/ AcquireLock(t)
       \/ CheckReadyLocked(t)
       \/ EnsureConnection(t)
       \/ ConnectAttempt(t)
       \/ Declare(t)
       \/ SetReady(t)
       \/ ReturnTrue(t)
       \/ Except(t)
       \/ Respond(t)
  \/ ConnectionLost
  \/ BrokerDown
  \/ BrokerUp

\* A broker on which the primary exchange exists with another type
Drifted ==
  [EmptyBroker EXCEPT !.exchanges =
     {[name |-> RAB.exchange, type |-> "direct", durable |-> TRUE]}]

(***************************************************************************)
(* worker.py: run_consumer and _ensure_topology.  Each turn of the loop    *)
(* opens a connection of its own; the one of the turn before is not        *)
(* closed by the code.                                                     *)
(***************************************************************************)
MaxRestarts == 6

MaxDeliveries == 1

MaxBackoffSleep == 30

\* queue_names: the names of TOPO["queues"]
QueueNames == [i \in DOMAIN TOPO.queues |-> TOPO.queues[i].name]

\* The bodies delivered to on_msg: a valid envelope, an envelope without
\* its meta, a text that is not JSON, and bytes that are not UTF-8
WorkerBodies ==
  { Encode(Dumps(BuildEnvelope([event |-> <<"transit", "recorded">>,
                                opt |-> TRUE, em |-> NoEdit, dm |-> NoEdit]))),
    Encode(Dumps(BuildEnvelope([event |-> <<"transit", "recorded">>,
                                opt |-> TRUE,
                                em |-> [op |-> "drop", key |-> "meta", kind |-> ""],
                                dm |-> NoEdit]))),
    Encode(<<Punct("{")>>),
    [encoding |-> "latin-1", text |-> <<>>] }

\* body.decode("utf-8", errors="replace"): never raises
DecodeLenient(body) == [ok |-> TRUE, text |-> body.text]

\* body.decode("utf-8"): raises UnicodeDecodeError on other bytes
Decode(body) ==
  IF body.encoding = "utf-8" THEN [ok |-> TRUE, text |-> body.text]
  ELSE [ok |-> FALSE, text |-> <<>>]

\* What on_msg finds when it uses the channel: it is open; it is closed and
\* basic_ack / basic_nack raise; or the connection is gone and the client
\* has not noticed, so the frame is written and never arrives
ChannelStates(conn) ==
  IF conn.alive THEN {"open"} ELSE {"closed", "unnoticed"}

\* A handler whose errors are not caught by the loop
WorkerExceptHandlerFatal(where) ==
  IF where = "handler" THEN "crashed" ELSE "sleep"

\* except Exception as e: wherever in the try block it was raised, the
\* loop goes on to its sleep
WorkerExcept(where) == "sleep"

\* A restart delay that does not depend on backoff
WorkerSleepFixed(b) == 1

\* min(backoff, 30)
WorkerSleepTime(b) == Min(b, MaxBackoffSleep)

WorkerInit ==
  /\ wconns = <<>>
  /\ wpc = "connect"
  /\ widx = 1
  /\ wqi = 1
  /\ wconsumers = {}
  /\ backoff = 1
  /\ wslept = <<>>
  /\ wstreak = 0
  /\ wissued = <<>>
  /\ wfails = 0
  /\ wdrops = 0
  /\ wsettled = <<>>
  /\ wapplied = 0
  /\ wsnapshot = EmptyBroker
  /\ wrefused = FALSE

\* _ensure_topology with an x-message-ttl that differs on every connection
WorkerDeclarationPerConnection(i) ==
  LET d == Declarations[i]
  IN  IF d.op = "queue_declare" /\ d.arguments # NoArguments
        THEN [d EXCEPT !.arguments =
                QueueArguments(TOPO.dlx, TOPO.ttl_ms + Len(wconns))]
        ELSE d

\* _ensure_topology with the first binding of a queue ahead of its
\* queue_declare
WorkerDeclarationBindFirst(i) ==
  Declarations[IF i = 3 THEN 4 ELSE IF i = 4 THEN 3 ELSE i]

\* The i-th declaration _ensure_topology(ch) issues
WorkerDeclaration(i) == Declarations[i]

\* conn = pika.BlockingConnection(_params()); ch = conn.channel();
\* ch.basic_qos(prefetch_count=100)
WorkerConnect ==
  /\ wpc = "connect"
  /\ \E ok \in BOOLEAN :
       IF ok
         THEN /\ wconns' = Append(wconns, OpenConnection(TRUE))
              /\ wpc' = "declare"
              /\ widx' = 1
              /\ wissued' = <<>>
              /\ wconsumers' = {}
              /\ UNCHANGED wfails
         ELSE /\ wfails < MaxConnectFailures
              /\ wfails' = wfails + 1
              /\ wpc' = WorkerExcept("connect")
              /\ UNCHANGED <<wconns, widx, wissued, wconsumers>>
  /\ UNCHANGED <<nonWorkerVars, broker, wqi, backoff, wslept, wstreak, wdrops,
                 wsettled, wapplied, wsnapshot, wrefused>>

\* _ensure_topology returning once the two exchanges are declared
WorkerTopologyDoneEarly(i) == i = 2

\* _ensure_topology(ch) returns after its last statement: declaration i was
\* the last one
WorkerTopologyDone(i) == i = Len(Declarations)

\* The next declaration of _ensure_topology(ch); after the last one the
\* basic_consume loop starts
WorkerDeclare ==
  /\ wpc = "declare"
  /\ LET r == Execute(broker, WorkerDeclaration(widx))
         last == WorkerTopologyDone(widx)
     IN  IF ~wconns[Len(wconns)].alive
           THEN /\ wconns' = [wconns EXCEPT ![Len(wconns)].is_open = FALSE,
                                             ![Len(wconns)].ch_is_open = FALSE]
                /\ wpc' = WorkerExcept("topology")
                /\ UNCHANGED <<broker, widx, wissued, wqi, wapplied, wsnapshot,
                               wrefused>>
         ELSE IF ~r.ok
           THEN /\ wconns' = [wconns EXCEPT ![Len(wconns)].ch_is_open = FALSE]
                /\ wpc' = WorkerExcept("topology")
                /\ wissued' = Append(wissued, WorkerDeclaration(widx))
                /\ wrefused' = (wrefused \/ wapplied > 0)
                /\ UNCHANGED <<broker, widx, wqi, wapplied, wsnapshot>>
         ELSE /\ broker' = r.broker
              /\ widx' = widx + 1
              /\ wissued' = Append(wissued, WorkerDeclaration(widx))
              /\ wpc' = IF last THEN "consume" ELSE "declare"
              /\ wqi' = IF last THEN 1 ELSE wqi
              /\ wapplied' = IF last THEN wapplied + 1 ELSE wapplied
              /\ wsnapshot' = IF last /\ wapplied = 0 THEN r.broker ELSE wsnapshot
              /\ UNCHANGED <<wconns, wrefused>>
  /\ UNCHANGED <<nonWorkerVars, wconsumers, backoff, wslept, wstreak, wfails,
                 wdrops, wsettled>>

\* A loop over queue_names that is left after its first queue
WorkerConsumersRegisteredFirstOnly(i) == i = 1

\* for q in queue_names: the loop ends after the last queue
WorkerConsumersRegistered(i) == i = Len(QueueNames)

\* for q in queue_names: ch.basic_consume(queue=q, on_message_callback=on_msg)
WorkerConsume ==
  /\ wpc = "consume"
  /\ wqi <= Len(QueueNames)
  /\ IF /\ wconns[Len(wconns)].alive
        /\ \E q \in broker.queues : q.name = QueueNames[wqi]
       THEN /\ wconsumers' = wconsumers \cup {QueueNames[wqi]}
            /\ wqi' = wqi + 1
            /\ wpc' = IF WorkerConsumersRegistered(wqi) THEN "reset"
                      ELSE "consume"
            /\ UNCHANGED wconns
       ELSE /\ wconns' = [wconns EXCEPT
                            ![Len(wconns)].is_open = wconns[Len(wconns)].alive,
                            ![Len(wconns)].ch_is_open = FALSE]
            /\ wpc' = WorkerExcept("consume")
            /\ UNCHANGED <<wconsumers, wqi>>
  /\ UNCHANGED <<nonWorkerVars, broker, widx, wissued, backoff, wslept, wstreak,
                 wfails, wdrops, wsettled, wapplied, wsnapshot, wrefused>>

\* backoff = 1.0, then ch.start_consuming()
WorkerReset ==
  /\ wpc = "reset"
  /\ backoff' = 1
  /\ wstreak' = 0
  /\ wpc' = "consuming"
  /\ UNCHANGED <<nonWorkerVars, broker, wconns, widx, wissued, wqi, wconsumers,
                 wslept, wfails, wdrops, wsettled, wapplied, wsnapshot,
                 wrefused>>

\* on_msg for one delivery.  The body is decoded and logged and then
\* acknowledged; it is neither parsed nor validated.  When the decoding or
\* the ack raises, basic_nack(requeue=False) is called from the except
\* clause, and when that raises too (the channel is closed) the exception
\* leaves on_msg and start_consuming().
WorkerOnMsg ==
  /\ wpc = "consuming"
  /\ Len(wsettled) < MaxDeliveries
  /\ \E body \in WorkerBodies, channel \in ChannelStates(wconns[Len(wconns)]) :
       LET decoded == Decode(body).ok
           ack_raised == decoded /\ channel = "closed"
           nack_called == ~decoded \/ ack_raised
       IN  /\ wsettled' = Append(wsettled,
                [body |-> body,
                 channel |-> channel,
                 ack_called |-> decoded,
                 ack_done |-> decoded /\ channel = "open",
                 nack_called |-> nack_called,
                 nack_done |-> nack_called /\ channel = "open"])
           /\ IF nack_called /\ channel = "closed"
                THEN /\ wconns' = [wconns EXCEPT
                                     ![Len(wconns)].is_open = FALSE,
                                     ![Len(wconns)].ch_is_open = FALSE]
                     /\ wpc' = WorkerExcept("handler")
                ELSE UNCHANGED <<wconns, wpc>>
  /\ UNCHANGED <<nonWorkerVars, broker, widx, wissued, wqi, wconsumers, backoff,
                 wslept, wstreak, wfails, wdrops, wapplied, wsnapshot,
                 wrefused>>

\* start_consuming() raises: the connection was lost
WorkerDisconnected ==
  /\ wpc = "consuming"
  /\ ~wconns[Len(wconns)].alive
  /\ wconns' = [wconns EXCEPT ![Len(wconns)].is_open = FALSE,
                               ![Len(wconns)].ch_is_open = FALSE]
  /\ wpc' = WorkerExcept("consuming")
  /\ UNCHANGED <<nonWorkerVars, broker, widx, wissued, wqi, wconsumers, backoff,
                 wslept, wstreak, wfails, wdrops, wsettled, wapplied, wsnapshot,
                 wrefused>>

\* except Exception: time.sleep(min(backoff, 30)); backoff *= 2
WorkerSleep ==
  /\ wpc = "sleep"
  /\ Len(wslept) < MaxRestarts
  /\ wslept' = Append(wslept, WorkerSleepTime(backoff))
  /\ wstreak' = wstreak + 1
  /\ backoff' = backoff * 2
  /\ wpc' = "connect"
  /\ UNCHANGED <<nonWorkerVars, broker, wconns, widx, wissued, wqi, wconsumers,
                 wfails, wdrops, wsettled, wapplied, wsnapshot, wrefused>>

\* except KeyboardInterrupt: break
WorkerInterrupt ==
  /\ wpc \notin {"stopped", "sleep", "crashed"}
  /\ wpc' = "stopped"
  /\ UNCHANGED <<nonWorkerVars, broker, wconns, widx, wissued, wqi, wconsumers,
                 backoff, wslept, wstreak, wfails, wdrops, wsettled, wapplied,
                 wsnapshot, wrefused>>

\* The network or the broker drops the worker's current connection
WorkerConnectionLost ==
  /\ wdrops < MaxDrops
  /\ wconns # <<>>
  /\ wconns[Len(wconns)].alive
  /\ wconns' = [wconns EXCEPT ![Len(wconns)].alive = FALSE]
  /\ wdrops' = wdrops + 1
  /\ UNCHANGED <<nonWorkerVars, broker, wpc, widx, wissued, wqi, wconsumers,
                 backoff, wslept, wstreak, wfails, wsettled, wapplied,
                 wsnapshot, wrefused>>

WorkerNext ==
  \/ WorkerConnect
  \/ WorkerDeclare
  \/ WorkerConsume
  \/ WorkerReset
  \/ WorkerOnMsg
  \/ WorkerDisconnected
  \/ WorkerSleep
  \/ WorkerInterrupt
  \/ WorkerConnectionLost

(***************************************************************************)
(* app_bus.py: the registry the service publishes (ENVELOPE_SCHEMA and     *)
(* SCHEMAS, here APP_SCHEMAS) and GET /schemas.  An envelope is checked    *)
(* against this registry and against the one of schemas.py.                *)
(***************************************************************************)
ENVELOPE_SCHEMA ==
  [ type |-> {"object"},
    required |-> {"event", "version", "data", "meta"},
    properties |->
      [ event |-> [type |-> {"string"}],
        version |-> [type |-> {"string"}],
        data |-> [type |-> {"object"}],
        meta |-> [ type |-> {"object"},
            required |-> {"occurred_at", "producer"},
            properties |->
              [ occurred_at |-> [type |-> {"string"}, format |-> "date-time"],
                producer |-> [type |-> {"string"}],
                correlation_id |-> [type |-> {"string"}],
                causation_id |-> [type |-> {"string"}] ],
            additionalProperties |-> TRUE ] ],
    additionalProperties |-> FALSE ]

APP_SCHEMAS ==
  (<<"transit", "recorded">> :>
     [ type |-> {"object"},
       required |-> {"transit_id", "toll_id", "toll_name", "lane", "vehicle_id", "vehicle_type", "timestamp"},
       properties |->
         [ transit_id |-> [type |-> {"string"}],
           toll_id |-> [type |-> {"string"}],
           toll_name |-> [type |-> {"string"}],
           lane |-> [type |-> {"string"}],
           vehicle_id |-> [type |-> {"string"}],
           vehicle_type |-> [type |-> {"string"}],
           timestamp |-> [type |-> {"string"}, format |-> "date-time"],
           details |-> [type |-> {"string"}] ],
       additionalProperties |-> FALSE ])
  @@ (<<"plate", "captured">> :>
     [ type |-> {"object"},
       required |-> {"toll_id", "lane", "image_id", "plate", "confidence", "timestamp"},
       properties |->
         [ toll_id |-> [type |-> {"string"}],
           lane |-> [type |-> {"string"}],
           image_id |-> [type |-> {"string"}],
           plate |-> [type |-> {"string"}],
           confidence |-> [type |-> {"number"}],
           timestamp |-> [type |-> {"string"}, format |-> "date-time"] ],
       additionalProperties |-> FALSE ])
  @@ (<<"toll", "status", "updated">> :>
     [ type |-> {"object"},
       required |-> {"toll_id", "toll_name", "open_lanes", "closed_lanes", "timestamp"},
       properties |->
         [ toll_id |-> [type |-> {"string"}],
           toll_name |-> [type |-> {"string"}],
           open_lanes |-> [type |-> {"integer"}],
           closed_lanes |-> [type |-> {"integer"}],
           timestamp |-> [type |-> {"string"}, format |-> "date-time"],
           alerts |-> [ type |-> {"array"},
               items |-> [ type |-> {"object"},
                   required |-> {"type", "time"},
                   properties |->
                     [ type |-> [type |-> {"string"}],
                       lane |-> [type |-> {"string", "null"}],
                       time |-> [type |-> {"string"}, format |-> "date-time"] ] ] ] ],
       additionalProperties |-> FALSE ])
  @@ (<<"rate", "updated">> :>
     [ type |-> {"object"},
       required |-> {"rate_id", "category_id", "peak_price", "offpeak_price", "valid_from", "valid_to"},
       properties |->
         [ rate_id |-> [type |-> {"string"}],
           category_id |-> [type |-> {"string"}],
           peak_price |-> [type |-> {"number"}],
           offpeak_price |-> [type |-> {"number"}],
           valid_from |-> [type |-> {"string"}, format |-> "date"],
           valid_to |-> [type |-> {"string"}, format |-> "date"] ],
       additionalProperties |-> FALSE ])
  @@ (<<"vehicle", "category", "changed">> :>
     [ type |-> {"object"},
       required |-> {"vehicle_id", "old_category_id", "new_category_id", "timestamp"},
       properties |->
         [ vehicle_id |-> [type |-> {"string"}],
           old_category_id |-> [type |-> {"string"}],
           new_category_id |-> [type |-> {"string"}],
           timestamp |-> [type |-> {"string"}, format |-> "date-time"] ],
       additionalProperties |-> FALSE ])
  @@ (<<"payment", "recorded">> :>
     [ type |-> {"object"},
       required |-> {"payment_id", "toll_id", "toll_name", "cashier_id", "timestamp", "payment_method", "amount", "reason"},
       properties |->
         [ payment_id |-> [type |-> {"string"}],
           toll_id |-> [type |-> {"string"}],
           toll_name |-> [type |-> {"string"}],
           cashier_id |-> [type |-> {"string"}],
           timestamp |-> [type |-> {"string"}, format |-> "date-time"],
           payment_method |-> [type |-> {"string"}],
           amount |-> [type |-> {"number"}],
           reason |-> [type |-> {"string"}] ],
       additionalProperties |-> FALSE ])
  @@ (<<"prepaid", "balance", "updated">> :>
     [ type |-> {"object"},
       required |-> {"account_id", "vehicle_id", "delta", "balance", "timestamp", "source"},
       properties |->
         [ account_id |-> [type |-> {"string"}],
           vehicle_id |-> [type |-> {"string"}],
           delta |-> [type |-> {"number"}],
           balance |-> [type |-> {"number"}],
           timestamp |-> [type |-> {"string"}, format |-> "date-time"],
           source |-> [type |-> {"string"}] ],
       additionalProperties |-> FALSE ])
  @@ (<<"debt", "created">> :>
     [ type |-> {"object"},
       required |-> {"debt_id", "vehicle_id", "amount", "origin", "timestamp"},
       properties |->
         [ debt_id |-> [type |-> {"string"}],
           vehicle_id |-> [type |-> {"string"}],
           amount |-> [type |-> {"number"}],
           origin |-> [type |-> {"string"}],
           timestamp |-> [type |-> {"string"}, format |-> "date-time"] ],
       additionalProperties |-> FALSE ])
  @@ (<<"debt", "settled">> :>
     [ type |-> {"object"},
       required |-> {"debt_id", "vehicle_id", "amount", "timestamp"},
       properties |->
         [ debt_id |-> [type |-> {"string"}],
           vehicle_id |-> [type |-> {"string"}],
           amount |-> [type |-> {"number"}],
           timestamp |-> [type |-> {"string"}, format |-> "date-time"] ],
       additionalProperties |-> FALSE ])
  @@ (<<"fine", "issued">> :>
     [ type |-> {"object"},
       required |-> {"fine_id", "vehicle_id", "timestamp", "amount", "infraction_type", "state"},
       properties |->
         [ fine_id |-> [type |-> {"string"}],
           vehicle_id |-> [type |-> {"string"}],
           timestamp |-> [type |-> {"string"}, format |-> "date-time"],
           amount |-> [type |-> {"number"}],
           infraction_type |-> [type |-> {"string"}],
           state |-> [type |-> {"string"}],
           transit_id |-> [type |-> {"string", "null"}] ],
       additionalProperties |-> FALSE ])
  @@ (<<"customer", "upserted">> :>
     [ type |-> {"object"},
       required |-> {"customer_id", "name", "is_active"},
       properties |->
         [ customer_id |-> [type |-> {"string"}],
           name |-> [type |-> {"string"}],
           is_active |-> [type |-> {"boolean"}] ],
       additionalProperties |-> TRUE ])
  @@ (<<"vehicle", "upserted">> :>
     [ type |-> {"object"},
       required |-> {"vehicle_id", "plate", "category_id"},
       properties |->
         [ vehicle_id |-> [type |-> {"string"}],
           plate |-> [type |-> {"string"}],
           category_id |-> [type |-> {"string"}] ],
       additionalProperties |-> TRUE ])
  @@ (<<"audit", "logged">> :>
     [ type |-> {"object"},
       required |-> {"event_id", "event_type", "timestamp", "toll_name", "details"},
       properties |->
         [ event_id |-> [type |-> {"string"}],
           event_type |-> [type |-> {"string"}],
           timestamp |-> [type |-> {"string"}, format |-> "date-time"],
           toll_name |-> [type |-> {"string"}],
           details |-> [type |-> {"string"}],
           vehicle_id |-> [type |-> {"string", "null"}] ],
       additionalProperties |-> FALSE ])

\* The registry of the service with a fine.issued schema that admits
\* undeclared properties
AppSchemasOpenFine ==
  [e \in DOMAIN SCHEMAS |->
     IF e = <<"fine", "issued">>
       THEN [SCHEMAS[e] EXCEPT !.additionalProperties = TRUE]
       ELSE SCHEMAS[e]]

\* The registry GET /schemas and the documentation pages read
ServiceRegistry == APP_SCHEMAS

\* validate(envelope, envelope_schema); schema = registry.get(evt);
\* validate(envelope["data"], schema): what each of the three finds
Verdict(env, envelope_schema, registry) ==
  LET named == /\ env.k = "dict"
               /\ "event" \in DOMAIN env.f
               /\ env.f.event.k = "str"
      registered == named /\ env.f.event.s \in DOMAIN registry
  IN  [envelope |-> Valid(env, envelope_schema),
       registered |-> registered,
       data |-> /\ registered
                /\ "data" \in DOMAIN env.f
                /\ Valid(env.f.data, registry[env.f.event.s])]

NoVerdict == [envelope |-> FALSE, registered |-> FALSE, data |-> FALSE]

NotListed == [events |-> {}, envelope |-> [type |-> {}]]

\* Nothing is checked against the registries and /schemas is not called
RegIdle ==
  /\ regInput = [event |-> <<"transit", "recorded">>, opt |-> FALSE,
                 em |-> NoEdit, dm |-> NoEdit]
  /\ regPc = "checked"
  /\ regVerdict = [publisher |-> NoVerdict, service |-> NoVerdict]
  /\ regListed = NotListed

RegInit ==
  /\ regInput \in Inputs
  /\ regPc = "start"
  /\ regVerdict = [publisher |-> NoVerdict, service |-> NoVerdict]
  /\ regListed = NotListed

\* The envelope validated with the registry of schemas.py, as publisher.py
\* does, and with the registry of app_bus.py
RegValidate ==
  /\ regPc = "start"
  /\ regVerdict' =
       [publisher |-> Verdict(BuildEnvelope(regInput), ENVELOPE, SCHEMAS),
        service |-> Verdict(BuildEnvelope(regInput), ENVELOPE_SCHEMA,
                            ServiceRegistry)]
  /\ regPc' = "checked"
  /\ UNCHANGED <<nonRegistryVars, broker, regInput, regListed>>

\* list_schemas(): {"events": list(SCHEMAS.keys()), "envelope":
\* ENVELOPE_SCHEMA}; the events are kept as the set of the names listed
ListSchemas ==
  /\ regListed = NotListed
  /\ regListed' = [events |-> DOMAIN ServiceRegistry,
                   envelope |-> ENVELOPE_SCHEMA]
  /\ UNCHANGED <<nonRegistryVars, broker, regInput, regPc, regVerdict>>

RegNext ==
  \/ RegValidate
  \/ ListSchemas

(***************************************************************************)
(* bootstrap_rabbit.py: main().  Texts are sequences of characters, so     *)
(* that str.replace and the matching of a regular expression work on what  *)
(* the program really writes; the segments of a routing key are single     *)
(* characters.                                                             *)
(***************************************************************************)
RECURSIVE JoinWith(_, _)
\* sep.join(parts)
JoinWith(parts, sep) ==
  IF parts = <<>> THEN <<>>
  ELSE IF Len(parts) = 1 THEN parts[1]
  ELSE parts[1] \o sep \o JoinWith(Tail(parts), sep)

\* A routing key or binding pattern as the text of config.json: its
\* segments joined by "."
Text(words) == JoinWith([i \in DOMAIN words |-> <<words[i]>>], <<".">>)

RECURSIVE Replace(_, _, _)
\* s.replace(old, new): every occurrence of old, from the left
Replace(s, old, new) ==
  IF Len(s) < Len(old) THEN s
  ELSE IF SubSeq(s, 1, Len(old)) = old
    THEN new \o Replace(SubSeq(s, Len(old) + 1, Len(s)), old, new)
  ELSE <<s[1]>> \o Replace(Tail(s), old, new)

RECURSIVE SplitOn(_, _)
\* The parts of text s between the occurrences of character c
SplitOn(s, c) ==
  IF \A i \in DOMAIN s : s[i] # c THEN <<s>>
  ELSE LET i == CHOOSE i \in DOMAIN s :
                  s[i] = c /\ \A j \in 1..(i - 1) : s[j] # c
       IN  <<SubSeq(s, 1, i - 1)>> \o SplitOn(SubSeq(s, i + 1, Len(s)), c)

RECURSIVE MatchAtoms(_, _)
\* Text s is matched, whole, by the branch r of a regular expression: a
\* sequence of characters, escaped characters (\c) and dots (any
\* character), each of them possibly followed by a star
MatchAtoms(r, s) ==
  IF r = <<>> THEN s = <<>>
  ELSE IF r[1] = "*" THEN FALSE
  ELSE LET escaped == r[1] = "\\" /\ Len(r) >= 2
           width == IF escaped THEN 2 ELSE 1
           Takes(c) == IF escaped THEN c = r[2] ELSE (r[1] = "." \/ c = r[1])
           starred == Len(r) > width /\ r[width + 1] = "*"
           rest == SubSeq(r, width + (IF starred THEN 2 ELSE 1), Len(r))
       IN  IF starred
             THEN \/ MatchAtoms(rest, s)
                  \/ s # <<>> /\ Takes(s[1]) /\ MatchAtoms(r, Tail(s))
             ELSE s # <<>> /\ Takes(s[1]) /\ MatchAtoms(rest, Tail(s))

\* The broker's test of a routing key against a topic-permission pattern
\* of the form ^...$ or ^(...|...)$
RegexMatch(p, s) ==
  LET anchored == Len(p) >= 2 /\ p[1] = "^" /\ p[Len(p)] = "$"
      body == SubSeq(p, 2, Len(p) - 1)
      grouped == Len(body) >= 2 /\ body[1] = "(" /\ body[Len(body)] = ")"
      branches == IF grouped
                    THEN SplitOn(SubSeq(body, 2, Len(body) - 1), "|")
                    ELSE <<body>>
  IN  anchored /\ \E i \in DOMAIN branches : MatchAtoms(branches[i], s)

\* CFG["rabbit"]: VHOST, EXCHANGE, EX_TYPE, DLX, TTL_MS
BOOT ==
  [vhost |-> <<"v">>, exchange |-> <<"x">>, exchange_type |-> "topic",
   dlx |-> <<"d">>, ttl_ms |-> DefaultTtlMs]

\* One entry of CFG["modules"]
Module(queue, bindings, username, can_publish) ==
  [queue |-> queue, bindings |-> bindings, username |-> username,
   password |-> <<"p">>, can_publish |-> can_publish]

\* The modules a config.json may hold: one bound with a one-segment
\* wildcard, one bound to everything, one bound to two plain keys
BootModule ==
  [ops |-> Module(<<"q", "1">>, << <<"a", "*">> >>, <<"u", "1">>,
                  << <<"a", "b">> >>),
   all |-> Module(<<"q", "2">>, << <<"#">> >>, <<"u", "2">>, <<>>),
   pay |-> Module(<<"q", "3">>, << <<"a", "b">>, <<"b", "c">> >>, <<"u", "3">>,
                  << <<"a", "b">>, <<"b", "c">> >>)]

BootConfigs ==
  { <<BootModule.ops>>, <<BootModule.all>>, <<BootModule.pay>>,
    <<BootModule.ops, BootModule.all>>, <<BootModule.pay, BootModule.ops>>,
    <<BootModule.all, BootModule.pay>> }

\* "^(" + "|".join(map(lambda s: s.replace(".","\\."), m["can_publish"]))
\* + ")$", or "$^" when the module publishes nothing
WritePattern(m) ==
  IF m.can_publish # <<>>
    THEN <<"^", "(">>
         \o JoinWith([i \in DOMAIN m.can_publish |->
                        Replace(Text(m.can_publish[i]), <<".">>, <<"\\", ".">>)],
                     <<"|">>)
         \o <<")", "$">>
    ELSE <<"$", "^">>

\* "^.*$" when the bindings are ["#"], else "^(" + "|".join(map(lambda s:
\* s.replace(".","\\.").replace("\\*",".*"), m["bindings"])) + ")$"
ReadPattern(m) ==
  IF m.bindings = << <<"#">> >>
    THEN <<"^", ".", "*", "$">>
    ELSE <<"^", "(">>
         \o JoinWith([i \in DOMAIN m.bindings |->
                        Replace(Replace(Text(m.bindings[i]),
                                        <<".">>, <<"\\", ".">>),
                                <<"\\", "*">>, <<".", "*">>)],
                     <<"|">>)
         \o <<")", "$">>

\* The arguments of one call of rq(method, path, data)
Request(method, path, data) ==
  [method |-> method, path |-> path, data |-> data]

NoData == [x \in {} |-> 0]

\* upsert_vhost(); upsert_exchanges()
VhostAndExchangeRequests ==
  <<Request("PUT", <<"vhosts", BOOT.vhost>>, NoData),
    Request("PUT", <<"vhosts", BOOT.vhost, "trace">>, [tracing |-> FALSE]),
    Request("PUT", <<"exchanges", BOOT.vhost, BOOT.dlx>>,
            [type |-> "fanout", durable |-> TRUE]),
    Request("PUT", <<"exchanges", BOOT.vhost, BOOT.exchange>>,
            [type |-> BOOT.exchange_type, durable |-> TRUE])>>

\* One turn of the first loop of main(): the queue, its bindings, its .dlq
\* queue and the binding of that to the dead-letter exchange
ModuleTopologyRequests(m) ==
  LET dlq == m.queue \o <<".", "d", "l", "q">>
  IN  <<Request("PUT", <<"queues", BOOT.vhost, m.queue>>,
                [durable |-> TRUE,
                 arguments |-> QueueArguments(BOOT.dlx, BOOT.ttl_ms)])>>
      \o [i \in DOMAIN m.bindings |->
            Request("POST",
                    <<"bindings", BOOT.vhost, "e", BOOT.exchange, "q", m.queue>>,
                    [routing_key |-> Text(m.bindings[i])])]
      \o <<Request("PUT", <<"queues", BOOT.vhost, dlq>>, [durable |-> TRUE]),
           Request("POST", <<"bindings", BOOT.vhost, "e", BOOT.dlx, "q", dlq>>,
                   [routing_key |-> <<>>])>>

\* One turn of the second loop of main(): the user, its permissions and
\* its topic permissions
ModuleSecurityRequests(m) ==
  <<Request("PUT", <<"users", m.username>>,
            [password |-> m.password, tags |-> <<>>]),
    Request("PUT", <<"permissions", BOOT.vhost, m.username>>,
            [configure |-> <<"^">> \o m.queue \o <<"$">>,
             write |-> <<"^">> \o BOOT.exchange \o <<"$">>,
             read |-> <<"^">> \o m.queue \o <<"$">>]),
    Request("PUT", <<"topic-permissions", BOOT.vhost, m.username>>,
            [exchange |-> BOOT.exchange, write |-> WritePattern(m),
             read |-> ReadPattern(m)])>>

RECURSIVE Flatten(_)
Flatten(seqs) == IF seqs = <<>> THEN <<>> ELSE Head(seqs) \o Flatten(Tail(seqs))

\* The calls of rq() main() makes when none of them fails, in order
BootRequests(modules) ==
  VhostAndExchangeRequests
  \o Flatten([i \in DOMAIN modules |-> ModuleTopologyRequests(modules[i])])
  \o Flatten([i \in DOMAIN modules |-> ModuleSecurityRequests(modules[i])])

\* The statuses the management API answers with; 0 stands for no response
\* (requests.request raised)
Statuses == {0, 200, 201, 204, 400, 500}

\* rq() that accepts any status
RqOkAny(status) == TRUE

\* r.status_code in ok, with ok=(200,201,202,204)
RqOk(status) == status \in {200, 201, 202, 204}

\* bootstrap_rabbit.py is not run
BootIdle ==
  /\ bootModules = <<>>
  /\ bootPc = 1
  /\ bootSent = <<>>
  /\ bootStatus = 0
  /\ bootOut = <<>>
  /\ bootExit = "idle"

\* main() starts: print("[*] Applying topology and security ...")
BootInit ==
  /\ bootModules \in BootConfigs
  /\ bootPc = 1
  /\ bootSent = <<>>
  /\ bootStatus = 0
  /\ bootOut = <<"[*]">>
  /\ bootExit = "running"

\* The next call of rq(): the request is sent; when requests.request
\* raises the program ends with the exception, when the status is not in
\* ok it prints [ERR] and calls sys.exit(1), otherwise main() goes on
BootRq ==
  /\ bootExit = "running"
  /\ bootPc <= Len(BootRequests(bootModules))
  /\ \E status \in Statuses :
       /\ bootSent' = Append(bootSent, BootRequests(bootModules)[bootPc])
       /\ bootStatus' = status
       /\ IF status = 0
            THEN /\ bootExit' = "raised"
                 /\ UNCHANGED <<bootPc, bootOut>>
          ELSE IF RqOk(status)
            THEN /\ bootPc' = bootPc + 1
                 /\ UNCHANGED <<bootOut, bootExit>>
          ELSE /\ bootOut' = Append(bootOut, "[ERR]")
               /\ bootExit' = "exit_1"
               /\ UNCHANGED bootPc
  /\ UNCHANGED <<nonBootVars, broker, bootModules>>

\* print("[OK] Topología y permisos aplicados."): main() returns
BootFinish ==
  /\ bootExit = "running"
  /\ bootPc > Len(BootRequests(bootModules))
  /\ bootOut' = Append(bootOut, "[OK]")
  /\ bootExit' = "returned"
  /\ UNCHANGED <<nonBootVars, broker, bootModules, bootPc, bootSent,
                 bootStatus>>

BootNext ==
  \/ BootRq
  \/ BootFinish

(***************************************************************************)
(* Specifications                                                          *)
(***************************************************************************)
\* The publisher before it is started, or where it is not run
PubIdle ==
  /\ pubInput = [event |-> <<"transit", "recorded">>, opt |-> FALSE,
                 em |-> NoEdit, dm |-> NoEdit]
  /\ envelope = BuildEnvelope(pubInput)
  /\ rkArg = [given |-> FALSE, key |-> <<>>]
  /\ pubPc = Len(PubProgram) + 1
  /\ pubPassed = {}
  /\ evt = <<>>
  /\ rk = <<>>
  /\ pubExit = Running
  /\ pubNet = <<>>
  /\ pubChannel = NoChannel
  /\ brokerLog = <<>>

InitPub ==
  /\ broker \in {ExchangesOnly, Provisioned}
  /\ PubInit
  /\ ClientInit
  /\ WorkerInit
  /\ RegIdle
  /\ BootIdle

NextPub == PubNext

SpecPub == InitPub /\ [][NextPub]_vars

InitClient ==
  /\ broker \in {EmptyBroker, ExchangesOnly, Provisioned, Drifted}
  /\ PubIdle
  /\ ClientInit
  /\ WorkerInit
  /\ RegIdle
  /\ BootIdle

NextClient == ClientNext

SpecClient == InitClient /\ [][NextClient]_vars

\* The statements a request thread executes once it is inside health()
ThreadStep(t) ==
  \/ CheckReady(t)
  \/ AcquireLock(t)
  \/ CheckReadyLocked(t)
  \/ EnsureConnection(t)
  \/ ConnectAttempt(t)
  \/ Declare(t)
  \/ SetReady(t)
  \/ ReturnTrue(t)
  \/ Except(t)
  \/ Respond(t)

\* RabbitClient started against a broker that holds the topology
InitClientLive ==
  /\ broker = Provisioned
  /\ PubIdle
  /\ ClientInit
  /\ WorkerInit
  /\ RegIdle
  /\ BootIdle

\* RabbitClient with threads that keep running: a thread that can take its
\* next statement takes it.  Nothing is assumed of the requests that arrive,
\* of the broker or of the network.
SpecClientLive ==
  /\ InitClientLive
  /\ [][NextClient]_vars
  /\ \A t \in Threads : WF_vars(ThreadStep(t))

InitWorker ==
  /\ broker \in {EmptyBroker, ExchangesOnly, Provisioned, Drifted}
  /\ PubIdle
  /\ ClientInit
  /\ WorkerInit
  /\ RegIdle
  /\ BootIdle

NextWorker == WorkerNext

SpecWorker == InitWorker /\ [][NextWorker]_vars

InitRegistry ==
  /\ broker = EmptyBroker
  /\ PubIdle
  /\ ClientInit
  /\ WorkerInit
  /\ RegInit
  /\ BootIdle

NextRegistry == RegNext

SpecRegistry == InitRegistry /\ [][NextRegistry]_vars

InitBoot ==
  /\ broker = EmptyBroker
  /\ PubIdle
  /\ ClientInit
  /\ WorkerInit
  /\ RegIdle
  /\ BootInit

NextBoot == BootNext

SpecBoot == InitBoot /\ [][NextBoot]_vars

\* run_consumer is a running loop: each of its statements is eventually
\* executed.  The operator's interrupt and the loss of a connection are the
\* environment's and need not happen.
WorkerStep ==
  \/ WorkerConnect
  \/ WorkerDeclare
  \/ WorkerConsume
  \/ WorkerReset
  \/ WorkerOnMsg
  \/ WorkerDisconnected
  \/ WorkerSleep

SpecWorkerLive == InitWorker /\ [][NextWorker]_vars /\ WF_vars(WorkerStep)

(***************************************************************************)
(* Properties of the schema gate and of the publisher (under SpecPub)      *)
(***************************************************************************)
ValidationSteps == {"validate_envelope", "lookup_schema", "validate_data"}

\* main() is past its validation statements, or has ended in one of them
ValidationOver == PubStep \notin ValidationSteps

\* All of the validation statements completed: the envelope was accepted
PubAccepted == ValidationSteps \subseteq pubPassed

\* main() ended in a validation statement
ValidationFailures(env) ==
  {[how |-> "raised", what |-> <<"ValidationError">>]}
  \cup {[how |-> "exit", what |-> <<"Schema no registrado", e>>] :
          e \in InputEvents}

NamesEvent(env) ==
  env.k = "dict" /\ "event" \in DOMAIN env.f /\ env.f.event.k = "str"

\* The data of env satisfies the payload schema registered for its event
DataSatisfies(env) ==
  /\ NamesEvent(env)
  /\ "data" \in DOMAIN env.f
  /\ Registered(env.f.event.s)
  /\ Valid(env.f.data, SCHEMAS[env.f.event.s])

\* C1: once validation is over, the envelope was accepted if and only if it
\* satisfies the envelope schema and its data satisfies the payload schema
\* registered for its event; otherwise main() ended in a validation failure.
C1_AcceptedIffBothSchemas ==
  ValidationOver =>
    /\ PubAccepted <=> (Valid(envelope, ENVELOPE) /\ DataSatisfies(envelope))
    /\ ~PubAccepted => pubExit \in ValidationFailures(envelope)

\* An envelope that satisfies the envelope schema only, rejected
C1_Witness ==
  /\ PubDone
  /\ Valid(envelope, ENVELOPE)
  /\ Registered(envelope.f.event.s)
  /\ ~DataSatisfies(envelope)
  /\ ~PubAccepted
  /\ pubExit = Raised("ValidationError")

\* C2 as stated: every envelope whose event string is not registered ends
\* in the schema-not-registered error naming the event.
C2_UnregisteredAlwaysNotRegistered ==
  (ValidationOver /\ NamesEvent(envelope)
     /\ envelope.f.event.s \notin DOMAIN SCHEMAS)
    => /\ pubExit.how = "exit"
       /\ pubExit.what = <<"Schema no registrado", envelope.f.event.s>>

\* C2, amended: every envelope that satisfies the envelope schema and whose
\* event string is not registered ends in the schema-not-registered error
\* naming the event, whatever its data object holds.
C2_ValidEnvelopeUnregistered ==
  (ValidationOver /\ Valid(envelope, ENVELOPE)
     /\ envelope.f.event.s \notin DOMAIN SCHEMAS)
    => /\ pubExit.how = "exit"
       /\ pubExit.what = <<"Schema no registrado", envelope.f.event.s>>
       /\ ~PubAccepted

C2_Witness ==
  /\ PubDone
  /\ Valid(envelope, ENVELOPE)
  /\ envelope.f.event.s \notin DOMAIN SCHEMAS
  /\ DOMAIN envelope.f.data.f # {}
  /\ pubExit.how = "exit"
  /\ pubExit.what = <<"Schema no registrado", <<"lane", "passage", "detected">>>>

\* C3: while the envelope is not accepted, and so whenever validation has
\* failed, no connection was opened and nothing was sent.
C3_NoNetworkUnlessAccepted ==
  ~PubAccepted =>
    /\ pubNet = <<>>
    /\ brokerLog = <<>>
    /\ pubChannel = NoChannel

C3_Witness ==
  /\ PubDone
  /\ pubExit \in ValidationFailures(envelope)
  /\ pubNet = <<>>

\* The JSON kinds each schema type admits
KindsOf(t) ==
  CASE t = "string" -> {"str"}
    [] t = "number" -> {"int", "float"}
    [] t = "integer" -> {"int"}
    [] t = "boolean" -> {"bool"}
    [] t = "null" -> {"null"}
    [] t = "array" -> {"list"}
    [] OTHER -> {"dict"}

\* Whether the data edit of input inp leaves data that matches schema s:
\* nothing required dropped, no field given a kind its declaration does not
\* admit, no undeclared field.
Conforms(inp, s) ==
  CASE inp.dm.op = "none" -> TRUE
    [] inp.dm.op = "drop" -> inp.dm.key \notin s.required
    [] inp.dm.op = "retype" ->
         inp.dm.kind \in UNION {KindsOf(t) : t \in s.properties[inp.dm.key].type}
    [] OTHER -> FALSE

ClosedSchemaInput(inp) ==
  /\ inp.em = NoEdit
  /\ Registered(inp.event)
  /\ SCHEMAS[inp.event].additionalProperties = FALSE

\* C4: for a registered event with a closed schema, data is accepted when it
\* has every required field, declared kinds only and no undeclared field, and
\* rejected when a required field is missing, a field has a wrong kind or an
\* undeclared field is present.
C4_ClosedSchemaGate ==
  (ValidationOver /\ ClosedSchemaInput(pubInput))
    => (PubAccepted <=> Conforms(pubInput, SCHEMAS[pubInput.event]))

C4_Witness ==
  /\ PubDone
  /\ ClosedSchemaInput(pubInput)
  /\ pubInput.dm.op = "retype"
  /\ pubInput.dm.kind = "bool"
  /\ ~Conforms(pubInput, SCHEMAS[pubInput.event])
  /\ pubExit = Raised("ValidationError")

PublishOutcomes == {"Confirmed", "Unroutable", "ValidationFailed", "ConnectionFailed"}

\* C5 as stated: every publish ends by returning one of the four outcomes,
\* and never by an exception or a report that is none of them.
C5_EndsInOneOfFourOutcomes ==
  PubDone => (pubExit.how = "returned" /\ pubExit.what[1] \in PublishOutcomes)

\* main() reported success
ReportedSuccess == pubExit.how = "returned" /\ pubExit.what[1] = "OK"

\* C6 as stated: a valid envelope published with a routing key that no
\* binding matches ends as Unroutable, never as a success report.
C6_UnroutableNeverSuccess ==
  (PubDone /\ brokerLog # <<>> /\ brokerLog[Len(brokerLog)].routed = {})
    => (pubExit.what[1] = "Unroutable" /\ ~ReportedSuccess)

\* C7 as stated: success is reported only after the broker acknowledged the
\* publish, and a recorded return is reported as Unroutable.
C7_SuccessOnlyAfterAck ==
  /\ ReportedSuccess =>
       (brokerLog # <<>> /\ brokerLog[Len(brokerLog)].acked /\ pubChannel.acks > 0)
  /\ (PubDone /\ pubChannel.returns # <<>>) => pubExit.what[1] = "Unroutable"

\* C8 as stated: every message sent to the exchange is persistent and
\* mandatory.
C8_PersistentAndMandatory ==
  \A i \in DOMAIN brokerLog :
    /\ brokerLog[i].msg.properties.delivery_mode = 2
    /\ brokerLog[i].msg.mandatory

\* C9: applying the topology twice in succession against the same broker is
\* idempotent: once one application has completed, a later application is
\* refused nowhere, and the broker's exchanges, queues (with their arguments)
\* and bindings stay the set the first application left.
C9_SecondApplicationChangesNothing ==
  wapplied >= 1 => (broker = wsnapshot /\ ~wrefused)

\* A second application has completed on a broker the first one provisioned
C9_Witness ==
  /\ wapplied >= 2
  /\ Len(wconns) >= 2
  /\ broker = wsnapshot
  /\ broker = Provisioned

\* C10: ensure_topology runs the declaration sequence to success at most once
\* on a connection, and exactly once on the connection on which it has
\* returned True; a call that starts after one has returned True, in the same
\* connection epoch, issues no declaration, makes no connection attempt and
\* returns True.
C10_ReadyCallsAreFree ==
  /\ runsInEpoch <= 1
  /\ (returnedTrue # -1 /\ Len(conns) = returnedTrue) => runsInEpoch = 1
  /\ \A t \in Threads :
       (tcall[t].after /\ Len(conns) = returnedTrue) =>
         /\ ~tcall[t].declared
         /\ ~tcall[t].connected
         /\ tpc[t] \in {"idle", "check", "respond"}
         /\ tpc[t] = "respond" => tret[t] = TRUE

\* A call made after ensure_topology returned True has itself returned True
C10_Witness ==
  \E t \in Threads :
    /\ tcall[t].after
    /\ Len(conns) = returnedTrue
    /\ runsInEpoch = 1
    /\ tpc[t] = "respond"
    /\ tret[t] = TRUE
    /\ ~tcall[t].declared
    /\ ~tcall[t].connected

(***************************************************************************)
(* Properties of RabbitClient (under SpecClient)                           *)
(***************************************************************************)
\* C11 as stated: a call of ensure_topology made after the client's
\* connection was dropped re-runs the provisioning on a new connection
\* before it returns True: it makes a connection attempt and issues the
\* declarations.
C11_ReprovisionsAfterDrop ==
  \A t \in Threads :
    (tcall[t].afterDrop /\ tpc[t] = "respond" /\ tret[t] = TRUE) =>
      (tcall[t].connected /\ tcall[t].declared)

\* The statements of ensure_topology inside "with self._lock"
InLockedRegion(t) ==
  tpc[t] \in {"check_locked", "ensure_connection", "connecting", "declare",
              "set_ready", "return_true", "except"}

\* C12: under concurrent callers of ensure_topology at most one caller is
\* inside the locked block, so the declarations of two callers never
\* interleave on the channel; and a caller that was inside the call when
\* another caller succeeded issues no declaration, makes no connection
\* attempt and returns True.
C12_OneCallerDeclares ==
  /\ \A t, u \in Threads : (InLockedRegion(t) /\ InLockedRegion(u)) => t = u
  /\ \A t \in Threads : InLockedRegion(t) => clientLock = t
  /\ \A t \in Threads :
       tcall[t].raced =>
         /\ ~tcall[t].declared
         /\ ~tcall[t].connected
         /\ tpc[t] = "respond" => tret[t] = TRUE

\* A caller that was overtaken by a successful one has returned True with
\* no declaration of its own
C12_Witness ==
  \E t, u \in Threads :
    /\ t # u
    /\ tcall[t].raced
    /\ tpc[t] = "respond"
    /\ tret[t] = TRUE
    /\ ~tcall[t].declared
    /\ tcall[u].declared
    /\ tret[u] = TRUE

\* C14: in the loop of _ensure_connection the sleep after the n-th
\* consecutive failed attempt is min(2^(n-1), 15), that is 1, 2, 4, 8, 15,
\* 15, ...; no sleep exceeds 15, and every run of the loop starts again at 1.
C14_BackoffSequence ==
  \A t \in Threads :
    /\ Len(tslept[t]) = tfails[t]
    /\ \A n \in DOMAIN tslept[t] :
         /\ tslept[t][n] = (IF 2^(n-1) <= 15 THEN 2^(n-1) ELSE 15)
         /\ tslept[t][n] <= 15
    /\ (tpc[t] = "connecting" /\ tslept[t] = <<>>) => tdelay[t] = 1

\* Six attempts in a row have failed: the caller slept 1, 2, 4, 8, 15, 15
C14_Witness ==
  \E t \in Threads :
    /\ tpc[t] = "connecting"
    /\ tfails[t] = 6
    /\ tslept[t] = <<1, 2, 4, 8, 15, 15>>

\* The connections RabbitClient opened that the broker still holds open
LiveConnections == {i \in DOMAIN conns : conns[i].alive}

\* C15 as stated: at most one connection opened by RabbitClient is live, and
\* a channel the client holds belongs to the connection it holds.
C15_OneLiveConnection ==
  /\ Cardinality(LiveConnections) <= 1
  /\ clientCh # 0 => clientConn = clientCh

\* Queue q of the Topology Spec is on broker b as the spec wants it
DeadLetterConnected(b, q) ==
  LET dlq == Append(q.name, "dlq")
  IN  /\ [name |-> q.name, durable |-> TRUE,
          arguments |-> ("x-dead-letter-exchange" :> TOPO.dlx)
                        @@ ("x-message-ttl" :> TOPO.ttl_ms)] \in b.queues
      /\ \A j \in DOMAIN q.bindings :
           [queue |-> q.name, exchange |-> RAB.exchange,
            routing_key |-> q.bindings[j]] \in b.bindings
      /\ \E d \in b.queues : d.name = dlq /\ d.durable
      /\ [queue |-> dlq, exchange |-> TOPO.dlx, routing_key |-> <<>>]
           \in b.bindings

\* C16: after a successful topology application every queue of the Topology
\* Spec is durable with the configured dead-letter exchange and message TTL,
\* is bound to the primary exchange for each of its binding patterns, and
\* has a durable ".dlq" queue bound to the DLX with the empty routing key.
C16_QueuesDeadLetterConnected ==
  topologyReady =>
    \A i \in DOMAIN TOPO.queues : DeadLetterConnected(broker, TOPO.queues[i])

\* ensure_topology has run its declarations to the end on a broker that
\* had no queue
C16_Witness ==
  /\ topologyReady
  /\ \E t \in Threads : tcall[t].declared /\ tpc[t] = "respond" /\ tret[t] = TRUE
  /\ Cardinality(broker.queues) = 4
  /\ Cardinality(broker.bindings) = 6

\* C17: when a declaration of ensure_topology raises, no further declaration
\* is issued in that call, the flag _topology_ready stays false, the call
\* records the failure in _last_error and returns False; and a call that
\* reaches the declarations starts with the first one.
C17_FailedCallStopsAndReports ==
  /\ [](\A t \in Threads :
          /\ tcall[t].failed => tpc[t] \in {"except", "respond", "idle"}
          /\ tpc[t] = "except" => (tcall[t].failed /\ topologyReady = FALSE)
          /\ (tpc[t] = "respond" /\ tcall[t].failed) => tret[t] = FALSE
          /\ (tpc[t] = "declare" /\ ~tcall[t].declared) => tidx[t] = 1)
  /\ [][\A t \in Threads :
          (tpc[t] = "except" /\ tpc'[t] # "except") =>
            /\ lastError' = "topology_failed"
            /\ tret'[t] = FALSE
            /\ topologyReady' = FALSE
            /\ tpc'[t] = "respond"]_vars

\* A call failed part of the way through the sequence and returned False
C17_Witness ==
  \E t \in Threads :
    /\ tpc[t] = "respond"
    /\ tcall[t].failed
    /\ tidx[t] > 2
    /\ tret[t] = FALSE
    /\ lastError = "topology_failed"
    /\ topologyReady = FALSE

\* C18: a declaration the broker refuses because it conflicts with what
\* exists ends the declarations of that call at once (no retry loop), makes
\* ensure_topology return False, and is answered by /health with ok false
\* and status 503, never as a success.
C18_ConflictReportedAsFailure ==
  \A t \in Threads :
    tcall[t].refused =>
      /\ tpc[t] \in {"except", "respond", "idle"}
      /\ tpc[t] = "respond" => tret[t] = FALSE
      /\ tpc[t] = "idle" => (tresp[t].ok = FALSE /\ tresp[t].status = 503)

\* The primary exchange exists with another type: /health answered 503
C18_Witness ==
  \E t \in Threads :
    /\ tcall[t].refused
    /\ tpc[t] = "idle"
    /\ tresp[t].ok = FALSE
    /\ tresp[t].status = 503
    /\ \E x \in broker.exchanges : x.name = RAB.exchange /\ x.type # RAB.exchange_type

\* The caller is held where it is by a broker outage: it is in the
\* reconnect loop while the broker is unreachable, or it waits for the lock
\* that a caller in that loop holds
HeldByOutage(t) ==
  \/ tpc[t] = "connecting" /\ ~brokerReachable
  \/ /\ tpc[t] = "acquire"
     /\ \E u \in Threads :
          clientLock = u /\ tpc[u] = "connecting" /\ ~brokerReachable

\* C19 as stated: a caller is never blocked forever by a broker outage:
\* while the broker stays unreachable, a caller in the reconnect loop, or
\* one waiting for the lock of a reconnecting caller, has a way on (the
\* call can end with a connection-failed or timeout outcome).
C19_OutageNeverBlocksCaller ==
  \A t \in Threads :
    HeldByOutage(t) => ENABLED (ThreadStep(t) /\ tpc'[t] # tpc[t])

\* C20: the reconnect loop never gives up: if the broker becomes reachable
\* and stays reachable, a caller inside the loop comes to hold an open
\* connection with an open channel and goes on to the declarations.
C20_ReconnectLoopSucceeds ==
  (<>[]brokerReachable) =>
    \A t \in Threads :
      (tpc[t] = "connecting") ~> (tpc[t] = "declare" /\ ConnectionUsable)

\* After failed attempts the caller holds an open connection and channel
C20_Witness ==
  \E t \in Threads :
    /\ tcall[t].connected
    /\ tpc[t] = "declare"
    /\ lastError = "connect_failed"
    /\ ConnectionUsable
    /\ clientConn = clientCh
    /\ Len(conns) = 1
    /\ brokerReachable

(***************************************************************************)
(* Properties of the published message (under SpecPub)                     *)
(***************************************************************************)
\* C26: the body sent is the UTF-8 JSON text of the envelope as validated:
\* decoding it gives back the validated envelope, with no field added,
\* dropped or changed; the envelope is the one read from the file; the
\* content type is application/json and the delivery mode 2 (persistent).
C26_BodyIsTheValidatedEnvelope ==
  /\ envelope = BuildEnvelope(pubInput)
  /\ \A i \in DOMAIN brokerLog :
       LET msg == brokerLog[i].msg
           decoded == Loads(msg.body.text)
       IN  /\ msg.body.encoding = "utf-8"
           /\ decoded.ok
           /\ decoded.v = envelope
           /\ Valid(decoded.v, ENVELOPE)
           /\ DataSatisfies(decoded.v)
           /\ msg.properties.content_type = "application/json"
           /\ msg.properties.delivery_mode = 2

\* A published envelope with nested values, optional fields and a
\* correlation_id in its meta
C26_Witness ==
  /\ brokerLog # <<>>
  /\ "correlation_id" \in DOMAIN envelope.f.meta.f
  /\ pubInput.opt
  /\ \E key \in DOMAIN envelope.f.data.f :
       envelope.f.data.f[key].k \in {"dict", "list"}
  /\ Loads(brokerLog[1].msg.body.text).v = envelope

\* C25 as stated: when meta.correlation_id is present the message carries it
\* as its message identifier, and when it is absent the message carries no
\* message identifier.
C25_CorrelationIdIsMessageId ==
  \A i \in DOMAIN brokerLog :
    LET props == brokerLog[i].msg.properties
        meta == envelope.f.meta.f
    IN  IF "correlation_id" \in DOMAIN meta
          THEN /\ "message_id" \in DOMAIN props
               /\ props.message_id = meta.correlation_id.s
          ELSE "message_id" \notin DOMAIN props

\* The routing key a publish is to use: the override when a non-empty one
\* is supplied, the event of the envelope otherwise
ExpectedRoutingKey ==
  IF rkArg.given /\ rkArg.key # <<>> THEN rkArg.key ELSE envelope.f.event.s

\* C27 as stated: the routing key used is the override whenever one is
\* supplied.
C27_OverrideAlwaysUsed ==
  \A i \in DOMAIN brokerLog :
    rkArg.given => brokerLog[i].msg.routing_key = rkArg.key

\* C27: the routing key used is the override whenever a non-empty one is
\* supplied and envelope.event otherwise (an empty override counts as none);
\* a supplied key that differs from the event is neither rewritten nor a
\* reason to reject the publish.
C27_NonEmptyOverrideUsed ==
  /\ \A i \in DOMAIN brokerLog :
       brokerLog[i].msg.routing_key = ExpectedRoutingKey
  /\ (PubStep \in {"close"} \/ (PubDone /\ pubExit.how = "returned")) =>
       rk = ExpectedRoutingKey
  /\ (PubDone /\ PubAccepted /\ pubExit.how # "returned") =>
       /\ pubExit.how = "raised"
       /\ pubExit.what[1] \in {"AMQPConnectionError", "AMQPError"}

\* An override that differs from the event was used as it was given
C27_Witness ==
  /\ PubDone
  /\ pubExit.how = "returned"
  /\ rkArg.given
  /\ rkArg.key = <<"fine", "issued">>
  /\ envelope.f.event.s = <<"transit", "recorded">>
  /\ brokerLog[1].msg.routing_key = <<"fine", "issued">>

\* C28 as stated: a channel that is open for the caller has delivery
\* confirmation enabled and a return callback registered.
C28_ChannelConfirmsAndReturns ==
  pubChannel.open => (pubChannel.confirm /\ pubChannel.on_return)

(***************************************************************************)
(* Properties of the consumer loop (under SpecWorker and SpecWorkerLive)   *)
(***************************************************************************)
\* The body is the JSON text of an envelope that satisfies the envelope
\* schema and the payload schema registered for its event
ValidBody(body) ==
  /\ Decode(body).ok
  /\ LET parsed == Loads(Decode(body).text)
     IN  /\ parsed.ok
         /\ Valid(parsed.v, ENVELOPE)
         /\ DataSatisfies(parsed.v)

\* C21 as stated: a delivery is acknowledged if and only if its body parses
\* and validates as an envelope, and is rejected with
\* basic_nack(requeue=False) if and only if parsing or validation fails.
C21_AckIffValidEnvelope ==
  \A i \in DOMAIN wsettled :
    (wsettled[i].ack_done \/ wsettled[i].nack_done) =>
      /\ wsettled[i].ack_done <=> ValidBody(wsettled[i].body)
      /\ wsettled[i].nack_done <=> ~ValidBody(wsettled[i].body)

RECURSIVE Pow2(_)
Pow2(n) == IF n = 0 THEN 1 ELSE 2 * Pow2(n - 1)

C24_ExceptionsLeadToReconnect ==
  /\ [](wpc \in {"connect", "declare", "consume", "reset", "consuming",
                 "sleep", "stopped"})
  /\ (wpc = "sleep" /\ Len(wslept) < MaxRestarts) ~> (wpc = "connect")
  /\ [][(wpc' = "stopped" /\ wpc # "stopped") => WorkerInterrupt]_vars

\* The handler failed (ack and nack raised) and the worker has a new
\* connection
C24_Witness ==
  /\ wsettled # <<>>
  /\ wsettled[Len(wsettled)].ack_called
  /\ wsettled[Len(wsettled)].nack_called
  /\ ~wsettled[Len(wsettled)].nack_done
  /\ wpc = "declare"
  /\ wconns[Len(wconns)].alive

\* The i-th declaration issued on the current channel declares exchange name
IssuedExchange(i, name) ==
  wissued[i].op = "exchange_declare" /\ wissued[i].exchange = name

\* The i-th declaration issued on the current channel declares queue name
IssuedQueue(i, name) ==
  wissued[i].op = "queue_declare" /\ wissued[i].queue = name

\* The i-th declaration issued on the current channel binds queue name
IssuedBind(i, name) ==
  wissued[i].op = "queue_bind" /\ wissued[i].queue = name

\* C29: on every channel the declarations are issued in one order: the
\* dead-letter exchange, the primary exchange, and then for each queue in
\* turn its queue declaration, all of its bindings, the declaration of its
\* .dlq queue and the binding of the .dlq queue to the dead-letter exchange.
\* No queue that names the dead-letter exchange is declared before that
\* exchange, and no binding is issued before its queue and its exchange
\* were declared.
C29_DeclarationOrder ==
  /\ Len(wissued) >= 1 =>
       IssuedExchange(1, TOPO.dlx) /\ wissued[1].exchange_type = "fanout"
  /\ Len(wissued) >= 2 => IssuedExchange(2, RAB.exchange)
  /\ \A i \in DOMAIN wissued :
       /\ wissued[i].op = "exchange_declare" => i <= 2
       /\ (wissued[i].op = "queue_declare"
           /\ "x-dead-letter-exchange" \in DOMAIN wissued[i].arguments) =>
            \E j \in 1..(i - 1) :
              IssuedExchange(j, wissued[i].arguments["x-dead-letter-exchange"])
       /\ wissued[i].op = "queue_bind" =>
            /\ \E j \in 1..(i - 1) : IssuedQueue(j, wissued[i].queue)
            /\ \E j \in 1..(i - 1) : IssuedExchange(j, wissued[i].exchange)
  /\ \A n \in DOMAIN TOPO.queues :
       LET q == TOPO.queues[n]
           dlq == Append(q.name, "dlq")
       IN  \A i \in DOMAIN wissued :
             /\ IssuedQueue(i, q.name) =>
                  /\ \A j \in 1..(i - 1) :
                       ~IssuedBind(j, q.name) /\ ~IssuedQueue(j, dlq)
                  /\ n > 1 =>
                       \E j \in 1..(i - 1) :
                         IssuedBind(j, Append(TOPO.queues[n - 1].name, "dlq"))
             /\ IssuedQueue(i, dlq) =>
                  /\ \A b \in DOMAIN q.bindings :
                       \E j \in 1..(i - 1) :
                         /\ IssuedBind(j, q.name)
                         /\ wissued[j].exchange = RAB.exchange
                         /\ wissued[j].routing_key = q.bindings[b]
                  /\ \A j \in 1..(i - 1) : ~IssuedBind(j, dlq)
                  /\ \A j \in (i + 1)..Len(wissued) : ~IssuedBind(j, q.name)
             /\ IssuedBind(i, dlq) =>
                  /\ i > 1
                  /\ IssuedQueue(i - 1, dlq)
                  /\ wissued[i].exchange = TOPO.dlx
  /\ wpc \in {"consume", "reset", "consuming"} =>
       \A n \in DOMAIN TOPO.queues :
         \E i \in DOMAIN wissued :
           IssuedBind(i, Append(TOPO.queues[n].name, "dlq"))

\* A whole run of _ensure_topology was issued on the worker's first channel
C29_Witness ==
  /\ wpc = "consume"
  /\ wapplied = 1
  /\ Len(wconns) = 1
  /\ Len(wissued) = 12
  /\ IssuedBind(12, <<"pay", "q", "dlq">>)
  /\ IssuedQueue(3, <<"ops", "q">>)

(***************************************************************************)
(* Retrying ensure_topology (under SpecClient)                             *)
(***************************************************************************)
\* C30: a call of ensure_topology that fails after any prefix of the
\* declarations leaves the flag false, and a later call that succeeds leaves
\* the broker with exactly the exchanges, queues and bindings of one
\* successful run against an empty broker, with _topology_ready true.
C30_RetryAfterPartialFailure ==
  /\ topologyReady => broker = ApplyAll(EmptyBroker, Declarations).broker
  /\ \A t \in Threads :
       /\ (tpc[t] = "respond" /\ tret[t] = TRUE) =>
            /\ topologyReady
            /\ ~tcall[t].failed
            /\ broker = ApplyAll(EmptyBroker, Declarations).broker
       /\ (tpc[t] = "respond" /\ tcall[t].failed /\ ~topologyReady) =>
            /\ broker.exchanges \subseteq Provisioned.exchanges \cup Drifted.exchanges
            /\ broker.queues \subseteq Provisioned.queues
            /\ broker.bindings \subseteq Provisioned.bindings

\* One caller's call failed after the exchanges and the first queue had been
\* declared, and a later call of another caller succeeded
C30_Witness ==
  \E t, u \in Threads :
    /\ t # u
    /\ tpc[t] \in {"respond", "idle"}
    /\ tcall[t].failed
    /\ ~tcall[t].refused
    /\ tidx[t] > 3
    /\ tidx[t] <= Len(Declarations)
    /\ tpc[u] = "respond"
    /\ tret[u] = TRUE
    /\ tcall[u].declared
    /\ topologyReady
    /\ broker = Provisioned

(***************************************************************************)
(* Concurrent /health requests (under SpecClient)                          *)
(***************************************************************************)
\* C31 as stated: a /health response that reports ok true with status 200
\* carries no error, whatever the interleaving of the requests.
C31_OkResponseHasNoError ==
  \A t \in Threads :
    (tresp[t].ok /\ tresp[t].status = 200) => tresp[t].error = "none"

\* The statements that read self._conn / self._ch for use or replace them:
\* _ensure_connection and the declarations on ch
UsesConnectionPair(t) ==
  tpc[t] \in {"ensure_connection", "connecting", "declare"}

\* C32: the connection/channel pair is read for use and replaced only by
\* the thread that holds the lock: two threads never run connection
\* establishment at the same time, no thread issues a declaration on the
\* channel while another thread is replacing it, and every replacement of
\* the pair is a step of the lock holder's reconnect loop.
C32_PairUsedOnlyUnderLock ==
  /\ [](\A t \in Threads : UsesConnectionPair(t) => clientLock = t)
  /\ [](\A t, u \in Threads :
          (tpc[t] = "connecting" /\ UsesConnectionPair(u)) => t = u)
  /\ [][(clientConn' # clientConn \/ clientCh' # clientCh) =>
          \E t \in Threads :
            /\ clientLock = t
            /\ tpc[t] = "connecting"
            /\ \A u \in Threads \ {t} :
                 ~UsesConnectionPair(u) /\ tpc'[u] = tpc[u]]_vars

\* One thread replaces a connection it had while another waits for the lock
C32_Witness ==
  \E t, u \in Threads :
    /\ tpc[t] = "connecting"
    /\ clientLock = t
    /\ clientConn # 0
    /\ clientCh # 0
    /\ tpc[u] = "acquire"

(***************************************************************************)
(* The worker's connections (under SpecWorker)                             *)
(***************************************************************************)
\* C33: on every connection of the worker, the first and each reconnect,
\* the whole topology is declared on the new channel before basic_consume
\* is issued for any queue, and the consumers are registered only when
\* every declaration was accepted.
C33_TopologyBeforeConsume ==
  /\ wpc \in {"consume", "reset", "consuming"} =>
       /\ wissued = Declarations
       /\ Provisioned.exchanges \subseteq broker.exchanges
       /\ Provisioned.queues \subseteq broker.queues
       /\ Provisioned.bindings \subseteq broker.bindings
       /\ wapplied >= 1
  /\ wconsumers # {} => wissued = Declarations
  /\ wpc = "declare" => (wconsumers = {} /\ Len(wissued) = widx - 1)
  /\ (wissued # <<>> /\ wissued # Declarations) => wconsumers = {}
  /\ wapplied <= Len(wconns)

\* The worker reconnected, declared the topology again and consumes
C33_Witness ==
  /\ Len(wconns) = 2
  /\ wapplied = 2
  /\ wpc = "consuming"
  /\ wissued = Declarations
  /\ wconsumers = {<<"ops", "q">>, <<"pay", "q">>}

\* C34: the wait before the n-th consecutive restart is min(2^(n-1), 30):
\* every sleep is min(backoff, 30) and doubles backoff, and backoff goes
\* back to 1 only in the step that starts consuming, after the connection,
\* all the declarations and the basic_consume of every queue have
\* succeeded.  Failures that come after connecting and before consuming
\* therefore keep lengthening the wait.
C34_BackoffResetOnlyWhenConsuming ==
  /\ [](wstreak = Len(wslept) =>
          \A n \in DOMAIN wslept :
            wslept[n] = (IF Pow2(n - 1) <= 30 THEN Pow2(n - 1) ELSE 30))
  /\ [][wslept' # wslept =>
          /\ wslept' = Append(wslept, IF backoff <= 30 THEN backoff ELSE 30)
          /\ backoff' = 2 * backoff]_vars
  /\ [][(backoff' < backoff \/ wstreak' < wstreak) =>
          /\ backoff' = 1
          /\ wpc' = "consuming"
          /\ wissued = Declarations
          /\ wconsumers = {TOPO.queues[n].name : n \in DOMAIN TOPO.queues}]_vars
  /\ [][(wpc' \in {"declare", "consume", "reset"} \/ wpc \in {"declare", "consume"})
          => backoff' >= backoff]_vars

\* Six connections in a row failed in the declarations, before consuming:
\* the waits were 1, 2, 4, 8, 16 and 30
C34_Witness ==
  /\ Len(wconns) = 6
  /\ wapplied = 0
  /\ wfails = 0
  /\ wconsumers = {}
  /\ wslept = <<1, 2, 4, 8, 16, 30>>
  /\ backoff = 64

(***************************************************************************)
(* The two schema registries (under SpecRegistry)                          *)
(***************************************************************************)
\* C35: the registry the service publishes and the registry the publisher
\* validates with are equivalent: they register the same event names,
\* /schemas lists these names and the same envelope schema, and every
\* envelope gets the same verdict from both (the same for its envelope, for
\* whether its event is registered and for its data).
C35_RegistriesEquivalent ==
  /\ DOMAIN APP_SCHEMAS = DOMAIN SCHEMAS
  /\ \A e \in DOMAIN SCHEMAS : APP_SCHEMAS[e] = SCHEMAS[e]
  /\ ENVELOPE_SCHEMA = ENVELOPE
  /\ regPc = "checked" => regVerdict.publisher = regVerdict.service
  /\ regListed # NotListed =>
       /\ regListed.events = DOMAIN SCHEMAS
       /\ regListed.envelope = ENVELOPE
       /\ \A e \in regListed.events : Valid(Sample(SCHEMAS[e]), APP_SCHEMAS[e])

\* An envelope of fine.issued with an undeclared property was refused by
\* both registries for its data alone, and /schemas was answered
C35_Witness ==
  /\ regPc = "checked"
  /\ regInput.event = <<"fine", "issued">>
  /\ regInput.dm.op = "extra"
  /\ regInput.em = NoEdit
  /\ regVerdict.publisher = [envelope |-> TRUE, registered |-> TRUE, data |-> FALSE]
  /\ regVerdict.service = [envelope |-> TRUE, registered |-> TRUE, data |-> FALSE]
  /\ regListed # NotListed

(***************************************************************************)
(* Properties of the bootstrap (under SpecBoot)                            *)
(***************************************************************************)
\* The routing keys of up to three segments
BootRoutingKeys ==
  LET seg == {"a", "b", "c"}
  IN  {<<x>> : x \in seg}
      \cup {<<x, y>> : x \in seg, y \in seg}
      \cup {<<x, y, z>> : x \in seg, y \in seg, z \in seg}

\* C36 as stated: for every module, every routing key that matches one of
\* the module's binding patterns (with * as one segment) is matched by the
\* read pattern sent in the module's topic-permissions request.
C36_ReadPatternCoversBindings ==
  \A i \in DOMAIN bootSent :
    bootSent[i].path[1] = "topic-permissions" =>
      \A n \in DOMAIN bootModules :
        bootModules[n].username = bootSent[i].path[3] =>
          \A key \in BootRoutingKeys :
            (\E b \in DOMAIN bootModules[n].bindings :
               TopicMatch(bootModules[n].bindings[b], key))
            => RegexMatch(bootSent[i].data.read, Text(key))

\* The requests of main() up to the users: the vhost, the exchanges and
\* what the first loop sends for every module
TopologyRequestCount(modules) ==
  4 + Len(Flatten([i \in DOMAIN modules |->
                     <<"queue">> \o [b \in DOMAIN modules[i].bindings |-> "bind"]
                     \o <<"dlq", "dlq_bind">>]))

\* C37: the bootstrap stops at the first request whose status is not
\* accepted: the failed request is the last one sent, it is sent once, the
\* requests before it are the steps of main() in order with none left out,
\* users and permissions are sent only after every queue, binding and
\* dead-letter step was accepted, and [OK] is printed only when every step
\* was accepted.
C37_AbortsAtFirstFailure ==
  /\ Len(bootSent) <= Len(BootRequests(bootModules))
  /\ bootSent = SubSeq(BootRequests(bootModules), 1, Len(bootSent))
  /\ bootStatus \in {400, 500} =>
       /\ bootExit = "exit_1"
       /\ bootOut = <<"[*]", "[ERR]">>
       /\ Len(bootSent) = bootPc
  /\ bootExit = "running" =>
       /\ bootStatus \in {0, 200, 201, 202, 204}
       /\ Len(bootSent) = bootPc - 1
       /\ bootOut = <<"[*]">>
  /\ \A i \in DOMAIN bootSent :
       bootSent[i].path[1] \in {"users", "permissions", "topic-permissions"}
         <=> i > TopologyRequestCount(bootModules)
  /\ (\E i \in DOMAIN bootOut : bootOut[i] = "[OK]") =>
       /\ bootExit = "returned"
       /\ bootSent = BootRequests(bootModules)
       /\ bootStatus \in {200, 201, 202, 204}
       /\ bootOut = <<"[*]", "[OK]">>

\* The binding of the second module's dead-letter queue was refused: the
\* program ended there, with no user created
C37_Witness ==
  /\ bootExit = "exit_1"
  /\ Len(bootModules) = 2
  /\ bootStatus = 500
  /\ Len(bootSent) = TopologyRequestCount(bootModules)
  /\ bootSent[Len(bootSent)].method = "POST"
  /\ bootSent[Len(bootSent)].path[4] = BOOT.dlx
  /\ \A i \in DOMAIN bootSent : bootSent[i].path[1] # "users"

====
